---- MODULE Spec2Model ----
(***************************************************************************)
(* Pyrix (src/pyrix.py): a modal terminal text editor with snapshot        *)
(* undo/redo, a soft-wrap layout, and an embedded terminal emulator.       *)
(*                                                                         *)
(* Characters and bytes are their code points (ord); a string or a bytes   *)
(* object is a sequence of code points.  Python indices are 0-based and    *)
(* are kept 0-based (cursor_x, cursor_y, scroll, wrap segments); the       *)
(* sequences that hold the data are 1-based, so lines[cursor_y + 1] is     *)
(* Python's self.lines[self.cursor_y].                                     *)
(*                                                                         *)
(* One step of the model is one iteration of Editor.run seen from getch:   *)
(* the key is read, the mode's handler runs, and the update_terminal and   *)
(* draw calls that open the next iteration run.                            *)
(***************************************************************************)
EXTENDS Integers, Sequences, FiniteSets, TLC

VARIABLES
    cursor_x, cursor_y, scroll, lines, mode, command_text,
    undo_stack, redo_stack, show_line_numbers,
    config_index, config_input, is_inputting, config_hex,
    show_dashboard, ac_suggestions, ac_index, is_python,
    term_fd, term_pid, terminal,
    scr_h, scr_w,      \* what stdscr.getmaxyx() returns
    running,           \* the loop of Editor.run has not ended
    crashed,           \* an exception left Editor.run
    pty,               \* the operating system's side of the PTY sessions
    saves,             \* the number of calls of Editor.save
    keys_read,         \* the number of keys getch has returned
    track,             \* history variable: edits and undos since a mark
    fed,               \* history variable: the chunks given to TerminalEmulator.write
    wrapped            \* the last result of get_wrapped_lines (<<>> before the first call)

vars == << cursor_x, cursor_y, scroll, lines, mode, command_text,
           undo_stack, redo_stack, show_line_numbers,
           config_index, config_input, is_inputting, config_hex,
           show_dashboard, ac_suggestions, ac_index, is_python,
           term_fd, term_pid, terminal, scr_h, scr_w, running, crashed, pty, saves,
           keys_read, track, fed, wrapped >>

(***************************************************************************)
(* Bounds of the model.                                                    *)
(***************************************************************************)
MaxLines == 2          \* the document holds at most this many lines
MaxLineLen == 4        \* a line holds at most this many characters
MaxHist == 1           \* undo frames plus redo frames kept while editing
MaxKeys == 8           \* keys read in one run
ScreenH == 4           \* terminal height: the viewport has ScreenH - 2 rows
ScreenW == 8           \* terminal width: the wrap width is ScreenW - 1 - gutter
MaxWrites == 4         \* chunks given to the decoder in one run
CapRun == 101          \* characters typed in the run that fills the undo stack
WrapMaxLen == 6        \* longest line of the documents laid out in SpecWrap
WrapMaxW == 4          \* widest wrap width of the terminals in SpecWrap

(***************************************************************************)
(* Program constants.                                                      *)
(***************************************************************************)
NORMAL == "NORMAL"
INSERT == "INSERT"
COMMAND == "COMMAND"
CONFIG == "CONFIG"
AUTOCOMPLETE == "AUTOCOMPLETE"
TERMINAL == "TERMINAL"

UNDO_LIMIT == 100
GUTTER_WIDTH == 5
TAB_SPACES == 4
DEFAULT_PAIR == 5
FG_PAIR_BASE == 40
A_BOLD == 2097152
COLOR_SHIFT == 256

ESC == 27
ENTER == 10
TAB == 9
DEL == 127
CTRL_W == 23
CR == 13
LF == 10
BS == 8
BEL == 7
KEY_DOWN == 258
KEY_UP == 259
KEY_LEFT == 260
KEY_RIGHT == 261
KEY_HOME == 262
KEY_BACKSPACE == 263
KEY_DC == 330
KEY_IC == 331
KEY_NPAGE == 338
KEY_PPAGE == 339
KEY_END == 360
NO_KEY == -1

\* Python's None where the field otherwise holds a descriptor or a pid
NoneId == -1

\* ord() of the characters the handlers compare keys with
ord(c) ==
    CASE c = " " -> 32  [] c = "#" -> 35  [] c = ":" -> 58  [] c = ";" -> 59
      [] c = "0" -> 48  [] c = "1" -> 49  [] c = "2" -> 50  [] c = "3" -> 51
      [] c = "4" -> 52  [] c = "5" -> 53  [] c = "6" -> 54  [] c = "7" -> 55
      [] c = "8" -> 56  [] c = "9" -> 57  [] c = "d" -> 100 [] c = "p" -> 112
      [] c = "A" -> 65  [] c = "B" -> 66  [] c = "C" -> 67  [] c = "D" -> 68
      [] c = "F" -> 70  [] c = "H" -> 72  [] c = "J" -> 74  [] c = "K" -> 75
      [] c = "X" -> 88  [] c = "Y" -> 89  [] c = "[" -> 91  [] c = "_" -> 95
      [] c = "a" -> 97  [] c = "b" -> 98  [] c = "c" -> 99  [] c = "e" -> 101
      [] c = "f" -> 102 [] c = "g" -> 103 [] c = "h" -> 104 [] c = "i" -> 105
      [] c = "j" -> 106 [] c = "k" -> 107 [] c = "l" -> 108 [] c = "m" -> 109
      [] c = "n" -> 110 [] c = "o" -> 111 [] c = "q" -> 113 [] c = "r" -> 114
      [] c = "t" -> 116 [] c = "u" -> 117 [] c = "w" -> 119 [] c = "x" -> 120
      [] c = "z" -> 122 [] c = "~" -> 126

\* a string literal as a sequence of code points
Str(cs) == [i \in 1..Len(cs) |-> ord(cs[i])]

(***************************************************************************)
(* Python's sequence operations.                                           *)
(***************************************************************************)
Min(a, b) == IF a < b THEN a ELSE b
Max(a, b) == IF a > b THEN a ELSE b

\* s[:n] and s[n:] for 0 <= n
Take(s, n) == SubSeq(s, 1, Min(n, Len(s)))
Drop(s, n) == SubSeq(s, n + 1, Len(s))

\* s[:-1]
DropLast(s) == IF Len(s) = 0 THEN s ELSE SubSeq(s, 1, Len(s) - 1)

\* list.insert(i, x) and del list[i], i 0-based and in range
InsertAt(s, i, x) == Take(s, i) \o <<x>> \o Drop(s, i)
DeleteAt(s, i) == Take(s, i) \o Drop(s, i + 1)

\* str.isalnum() or '_' on the characters of the model (ASCII)
IsWordChar(c) ==
    \/ c \in 48..57
    \/ c \in 65..90
    \/ c \in 97..122
    \/ c = 95

\* str.strip(): whitespace is removed at both ends
IsSpace(c) == c \in {32, 9, 10, 11, 12, 13}

RECURSIVE LStrip(_)
LStrip(s) == IF s # <<>> /\ IsSpace(Head(s)) THEN LStrip(Tail(s)) ELSE s

RECURSIVE RStrip(_)
RStrip(s) == IF s # <<>> /\ IsSpace(s[Len(s)]) THEN RStrip(DropLast(s)) ELSE s

Strip(s) == RStrip(LStrip(s))

(***************************************************************************)
(* The program state as one record, so that a handler is a function from   *)
(* the state before it to the state after it.                              *)
(***************************************************************************)
Cur ==
    [ cursor_x |-> cursor_x, cursor_y |-> cursor_y, scroll |-> scroll,
      lines |-> lines, mode |-> mode, command_text |-> command_text,
      undo_stack |-> undo_stack, redo_stack |-> redo_stack,
      show_line_numbers |-> show_line_numbers,
      config_index |-> config_index, config_input |-> config_input,
      is_inputting |-> is_inputting, config_hex |-> config_hex,
      show_dashboard |-> show_dashboard,
      ac_suggestions |-> ac_suggestions, ac_index |-> ac_index,
      is_python |-> is_python,
      term_fd |-> term_fd, term_pid |-> term_pid, terminal |-> terminal,
      scr_h |-> scr_h, scr_w |-> scr_w,
      running |-> running, crashed |-> crashed, pty |-> pty, saves |-> saves ]

Load(s) ==
    /\ cursor_x' = s.cursor_x
    /\ cursor_y' = s.cursor_y
    /\ scroll' = s.scroll
    /\ lines' = s.lines
    /\ mode' = s.mode
    /\ command_text' = s.command_text
    /\ undo_stack' = s.undo_stack
    /\ redo_stack' = s.redo_stack
    /\ show_line_numbers' = s.show_line_numbers
    /\ config_index' = s.config_index
    /\ config_input' = s.config_input
    /\ is_inputting' = s.is_inputting
    /\ config_hex' = s.config_hex
    /\ show_dashboard' = s.show_dashboard
    /\ ac_suggestions' = s.ac_suggestions
    /\ ac_index' = s.ac_index
    /\ is_python' = s.is_python
    /\ term_fd' = s.term_fd
    /\ term_pid' = s.term_pid
    /\ terminal' = s.terminal
    /\ scr_h' = s.scr_h
    /\ scr_w' = s.scr_w
    /\ running' = s.running
    /\ crashed' = s.crashed
    /\ pty' = s.pty
    /\ saves' = s.saves

(***************************************************************************)
(* History: save_state, undo, redo.                                        *)
(***************************************************************************)
Frame(s) == [lines |-> s.lines, cursor_x |-> s.cursor_x, cursor_y |-> s.cursor_y]

save_state(s) ==
    LET kept == IF Len(s.undo_stack) > UNDO_LIMIT
                THEN Tail(s.undo_stack)
                ELSE s.undo_stack
    IN  [s EXCEPT !.undo_stack = Append(kept, Frame(s)), !.redo_stack = <<>>]

\* undo as it would be if the frame's cursor were not put back
undo_lines_only(s) ==
    IF s.undo_stack = <<>> THEN s
    ELSE LET state == s.undo_stack[Len(s.undo_stack)]
         IN  [s EXCEPT !.redo_stack = Append(s.redo_stack, Frame(s)),
                       !.undo_stack = DropLast(s.undo_stack),
                       !.lines = state.lines]

undo(s) ==
    IF s.undo_stack = <<>> THEN s
    ELSE LET state == s.undo_stack[Len(s.undo_stack)]
         IN  [s EXCEPT !.redo_stack = Append(s.redo_stack, Frame(s)),
                       !.undo_stack = DropLast(s.undo_stack),
                       !.lines = state.lines,
                       !.cursor_x = state.cursor_x,
                       !.cursor_y = state.cursor_y]

\* redo as it would be if it pushed no frame on the undo stack
redo_without_frame(s) ==
    IF s.redo_stack = <<>> THEN s
    ELSE LET state == s.redo_stack[Len(s.redo_stack)]
         IN  [s EXCEPT !.redo_stack = DropLast(s.redo_stack),
                       !.lines = state.lines,
                       !.cursor_x = state.cursor_x,
                       !.cursor_y = state.cursor_y]

redo(s) ==
    IF s.redo_stack = <<>> THEN s
    ELSE LET state == s.redo_stack[Len(s.redo_stack)]
         IN  [s EXCEPT !.undo_stack = Append(s.undo_stack, Frame(s)),
                       !.redo_stack = DropLast(s.redo_stack),
                       !.lines = state.lines,
                       !.cursor_x = state.cursor_x,
                       !.cursor_y = state.cursor_y]

(***************************************************************************)
(* Layout: get_wrapped_lines and the wrap row of the cursor.               *)
(* A segment is <<line index, start, end>>, all 0-based, end exclusive.    *)
(***************************************************************************)
\* for j in range(j, len, width): (i, j, min(j + width, len)); a step below 1
\* yields no segment (range() is empty for a negative step)
RECURSIVE RangeSegments(_, _, _, _)
RangeSegments(i, j, len, width) ==
    IF j >= len \/ width < 1 THEN <<>>
    ELSE << <<i, j, Min(j + width, len)>> >> \o RangeSegments(i, j + width, len, width)

\* LineSegments as it would be without the branch for an empty line
LineSegmentsOfRange(i, line, width) == RangeSegments(i, 0, Len(line), width)

LineSegments(i, line, width) ==
    IF line = <<>> THEN << <<i, 0, 0>> >>
    ELSE RangeSegments(i, 0, Len(line), width)

RECURSIVE WrapFrom(_, _, _)
WrapFrom(ls, i, width) ==
    IF i >= Len(ls) THEN <<>>
    ELSE LineSegments(i, ls[i + 1], width) \o WrapFrom(ls, i + 1, width)

WrapWidth(w, numbered) == w - 1 - (IF numbered THEN GUTTER_WIDTH ELSE 0)

get_wrapped_lines(s) == WrapFrom(s.lines, 0, WrapWidth(s.scr_w, s.show_line_numbers))

\* the loop of move (and of draw) that finds the segment holding the cursor:
\* the first match, or -1
CursorWrappedIdx(s, wr) ==
    LET hits == { i \in 1..Len(wr) :
                    /\ wr[i][1] = s.cursor_y
                    /\ wr[i][2] <= s.cursor_x
                    /\ s.cursor_x <= wr[i][3]
                    /\ \/ s.cursor_x < wr[i][3]
                       \/ /\ s.cursor_x = wr[i][3]
                          /\ wr[i][3] = Len(s.lines[wr[i][1] + 1]) }
    IN  IF hits = {} THEN -1
        ELSE (CHOOSE i \in hits : \A k \in hits : i <= k) - 1

\* move as it would be if the scroll below the viewport were one row short
move_scrolling_short(s, dx, dy) ==
    LET y == Max(0, Min(s.cursor_y + dy, Len(s.lines) - 1))
        x == Max(0, Min(s.cursor_x + dx, Len(s.lines[y + 1])))
        s1 == [s EXCEPT !.cursor_y = y, !.cursor_x = x]
        cursor_wrapped_idx == CursorWrappedIdx(s1, get_wrapped_lines(s1))
        h == s.scr_h
    IN  IF cursor_wrapped_idx = -1 THEN s1
        ELSE IF cursor_wrapped_idx < s1.scroll
             THEN [s1 EXCEPT !.scroll = cursor_wrapped_idx]
        ELSE IF cursor_wrapped_idx >= s1.scroll + h - 2
             THEN [s1 EXCEPT !.scroll = cursor_wrapped_idx - (h - 2)]
        ELSE s1

move(s, dx, dy) ==
    LET y == Max(0, Min(s.cursor_y + dy, Len(s.lines) - 1))
        x == Max(0, Min(s.cursor_x + dx, Len(s.lines[y + 1])))
        s1 == [s EXCEPT !.cursor_y = y, !.cursor_x = x]
        cursor_wrapped_idx == CursorWrappedIdx(s1, get_wrapped_lines(s1))
        h == s.scr_h
    IN  IF cursor_wrapped_idx = -1 THEN s1
        ELSE IF cursor_wrapped_idx < s1.scroll
             THEN [s1 EXCEPT !.scroll = cursor_wrapped_idx]
        ELSE IF cursor_wrapped_idx >= s1.scroll + h - 2
             THEN [s1 EXCEPT !.scroll = cursor_wrapped_idx - (h - 3)]
        ELSE s1

(***************************************************************************)
(* Document buffer: insert, backspace, newline, delete_char.               *)
(***************************************************************************)
insert(s, ch) ==
    LET line == s.lines[s.cursor_y + 1]
    IN  [s EXCEPT !.lines[s.cursor_y + 1] =
                        Take(line, s.cursor_x) \o <<ch>> \o Drop(line, s.cursor_x),
                  !.cursor_x = s.cursor_x + 1]

backspace(s) ==
    IF s.cursor_x > 0
    THEN LET line == s.lines[s.cursor_y + 1]
         IN  [s EXCEPT !.lines[s.cursor_y + 1] =
                             Take(line, s.cursor_x - 1) \o Drop(line, s.cursor_x),
                       !.cursor_x = s.cursor_x - 1]
    ELSE IF s.cursor_y > 0
    THEN LET prev == s.lines[s.cursor_y]
             joined == [s.lines EXCEPT ![s.cursor_y] = prev \o s.lines[s.cursor_y + 1]]
         IN  [s EXCEPT !.cursor_x = Len(prev),
                       !.lines = DeleteAt(joined, s.cursor_y),
                       !.cursor_y = s.cursor_y - 1]
    ELSE s

newline(s) ==
    LET line == s.lines[s.cursor_y + 1]
        cut == [s.lines EXCEPT ![s.cursor_y + 1] = Take(line, s.cursor_x)]
    IN  [s EXCEPT !.lines = InsertAt(cut, s.cursor_y + 1, Drop(line, s.cursor_x)),
                  !.cursor_y = s.cursor_y + 1,
                  !.cursor_x = 0]

delete_char(s) ==
    LET s1 == save_state(s)
        line == s1.lines[s1.cursor_y + 1]
    IN  IF s1.cursor_x < Len(line)
        THEN [s1 EXCEPT !.lines[s1.cursor_y + 1] =
                              Take(line, s1.cursor_x) \o Drop(line, s1.cursor_x + 1)]
        ELSE s1

get_current_word(s) ==
    LET line == s.lines[s.cursor_y + 1]
        starts == { st \in 0..s.cursor_x :
                      \A k \in (st + 1)..s.cursor_x : IsWordChar(line[k]) }
        start == CHOOSE st \in starts : \A o \in starts : st <= o
    IN  SubSeq(line, start + 1, s.cursor_x)

\* replace_word as it would be if the suggestion were put in at the cursor
\* and the word before it were kept
replace_word_keeping_word(s, suggestion) ==
    LET s1 == save_state(s)
        line == s1.lines[s1.cursor_y + 1]
    IN  [s1 EXCEPT !.lines[s1.cursor_y + 1] =
                        Take(line, s1.cursor_x) \o suggestion
                            \o Drop(line, s1.cursor_x),
                   !.cursor_x = s1.cursor_x + Len(suggestion)]

\* the replacement of the current word by a suggestion, as handle_insert
\* (Right) and handle_autocomplete (Enter, Right) write it
replace_word(s, suggestion) ==
    LET word == get_current_word(s)
        s1 == save_state(s)
        line == s1.lines[s1.cursor_y + 1]
    IN  [s1 EXCEPT !.lines[s1.cursor_y + 1] =
                        Take(line, s1.cursor_x - Len(word)) \o suggestion
                            \o Drop(line, s1.cursor_x),
                   !.cursor_x = s1.cursor_x + (Len(suggestion) - Len(word))]

(***************************************************************************)
(* TerminalEmulator: the grid of (character, attribute) cells, the cursor  *)
(* and the current attribute.  A curses attribute is the integer curses    *)
(* uses: color_pair(n) is n shifted left by 8 bits, A_BOLD is bit 21.      *)
(***************************************************************************)
color_pair(n) == n * COLOR_SHIFT

\* attr | curses.A_BOLD, on an attribute made of a colour pair and A_BOLD
OrBold(attr) == IF (attr \div A_BOLD) % 2 = 1 THEN attr ELSE attr + A_BOLD

BlankCell == <<ord(" "), color_pair(DEFAULT_PAIR)>>
BlankRow(w) == [x \in 1..w |-> BlankCell]

\* self.terminal = None
NoTerminal ==
    [ h |-> -1, w |-> -1, cursor_x |-> 0, cursor_y |-> 0,
      current_attr |-> 0, screen |-> <<>>, ansi_buf |-> <<>> ]

TerminalEmulator(h, w) ==
    [ h |-> h, w |-> w, cursor_x |-> 0, cursor_y |-> 0,
      current_attr |-> color_pair(DEFAULT_PAIR),
      screen |-> [y \in 1..h |-> BlankRow(w)],
      ansi_buf |-> <<>> ]

\* scroll as it would be if the last row were dropped, not the first
term_scroll_dropping_last(t) ==
    [t EXCEPT !.screen = Append(DropLast(t.screen), BlankRow(t.w)),
              !.cursor_y = t.h - 1]

term_scroll(t) ==
    [t EXCEPT !.screen = Append(Tail(t.screen), BlankRow(t.w)),
              !.cursor_y = t.h - 1]

\* bytes.split(b';'): always at least one field
RECURSIVE SplitOn(_, _)
SplitOn(bs, sep) ==
    IF \A i \in 1..Len(bs) : bs[i] # sep THEN <<bs>>
    ELSE LET k == CHOOSE i \in 1..Len(bs) :
                     bs[i] = sep /\ \A m \in 1..(i - 1) : bs[m] # sep
         IN  <<SubSeq(bs, 1, k - 1)>> \o SplitOn(SubSeq(bs, k + 1, Len(bs)), sep)

IsDigit(c) == c \in 48..57

RECURSIVE DigitsValue(_)
DigitsValue(ds) ==
    IF ds = <<>> THEN 0
    ELSE DigitsValue(DropLast(ds)) * 10 + (ds[Len(ds)] - 48)

\* int(p) on a bytes field: surrounding whitespace and one sign are accepted,
\* then decimal digits only: <<value>>; anything else raises ValueError: <<>>.
\* (An underscore between digits cannot occur: it is a final byte.)
ParseInt(p) ==
    LET q == Strip(p)
        signed == q # <<>> /\ q[1] \in {43, 45}
        ds == IF signed THEN Tail(q) ELSE q
    IN  IF ds # <<>> /\ \A i \in 1..Len(ds) : IsDigit(ds[i])
        THEN (IF signed /\ q[1] = 45 THEN <<0 - DigitsValue(ds)>> ELSE <<DigitsValue(ds)>>)
        ELSE <<>>

\* nums = [int(p) if p else 0 for p in params], [0] on ValueError
ParseNums(params) ==
    LET val(p) == IF p = <<>> THEN <<0>> ELSE ParseInt(p)
    IN  IF \E i \in 1..Len(params) : val(params[i]) = <<>> THEN <<0>>
        ELSE [i \in 1..Len(params) |-> val(params[i])[1]]

Sgr(attr, n) ==
    IF n = 0 THEN color_pair(DEFAULT_PAIR)
    ELSE IF 30 <= n /\ n <= 37 THEN color_pair(FG_PAIR_BASE + (n - 30))
    ELSE IF 40 <= n /\ n <= 47 THEN attr
    ELSE IF n = 1 THEN OrBold(attr)
    ELSE attr

RECURSIVE SgrAll(_, _)
SgrAll(attr, nums) ==
    IF nums = <<>> THEN attr ELSE SgrAll(Sgr(attr, Head(nums)), Tail(nums))

handle_ansi(t, seq) ==
    IF ~(Len(seq) >= 2 /\ seq[1] = ESC /\ seq[2] = ord("[")) THEN t
    ELSE LET cmd == seq[Len(seq)]
             params == SplitOn(SubSeq(seq, 3, Len(seq) - 1), ord(";"))
             nums == ParseNums(params)
         IN  IF cmd = ord("m")
             THEN [t EXCEPT !.current_attr = SgrAll(t.current_attr, nums)]
             ELSE IF cmd = ord("H") \/ cmd = ord("f")
             THEN LET y == Max(0, Min(t.h - 1, nums[1] - 1))
                      x == Max(0, Min(t.w - 1,
                                      (IF Len(nums) > 1 THEN nums[2] ELSE 1) - 1))
                  IN  [t EXCEPT !.cursor_y = y, !.cursor_x = x]
             ELSE IF cmd = ord("J")
             THEN (IF nums[1] = 2
                   THEN [t EXCEPT !.screen = [y \in 1..t.h |-> BlankRow(t.w)],
                                  !.cursor_x = 0, !.cursor_y = 0]
                   ELSE t)
             ELSE IF cmd = ord("K")
             THEN [t EXCEPT !.screen[t.cursor_y + 1] =
                        [x \in 1..t.w |->
                            IF x - 1 >= t.cursor_x
                            THEN <<ord(" "), t.current_attr>>
                            ELSE t.screen[t.cursor_y + 1][x]]]
             ELSE t

\* the loop body as it would be if a full row did not wrap the cursor
put_byte_unwrapped(t, c) ==
    IF c = CR THEN [t EXCEPT !.cursor_x = 0]
    ELSE IF c = LF
    THEN LET t1 == [t EXCEPT !.cursor_y = t.cursor_y + 1]
         IN  IF t1.cursor_y >= t1.h THEN term_scroll(t1) ELSE t1
    ELSE IF c = BS THEN [t EXCEPT !.cursor_x = Max(0, t.cursor_x - 1)]
    ELSE IF c = BEL THEN t
    ELSE IF 32 <= c /\ c <= 126
    THEN (IF t.cursor_x < t.w
          THEN [t EXCEPT !.screen[t.cursor_y + 1][t.cursor_x + 1] =
                             <<c, t.current_attr>>,
                         !.cursor_x = t.cursor_x + 1]
          ELSE t)
    ELSE t

\* the body of write's loop for one byte that opens no complete sequence
put_byte(t, c) ==
    IF c = CR THEN [t EXCEPT !.cursor_x = 0]
    ELSE IF c = LF
    THEN LET t1 == [t EXCEPT !.cursor_y = t.cursor_y + 1]
         IN  IF t1.cursor_y >= t1.h THEN term_scroll(t1) ELSE t1
    ELSE IF c = BS THEN [t EXCEPT !.cursor_x = Max(0, t.cursor_x - 1)]
    ELSE IF c = BEL THEN t
    ELSE IF 32 <= c /\ c <= 126
    THEN (IF t.cursor_x < t.w
          THEN LET t1 == [t EXCEPT !.screen[t.cursor_y + 1][t.cursor_x + 1] =
                                        <<c, t.current_attr>>,
                                   !.cursor_x = t.cursor_x + 1]
               IN  IF t1.cursor_x >= t1.w
                   THEN LET t2 == [t1 EXCEPT !.cursor_x = 0,
                                             !.cursor_y = t1.cursor_y + 1]
                        IN  IF t2.cursor_y >= t2.h THEN term_scroll(t2) ELSE t2
                   ELSE t1
          ELSE t)
    ELSE t

IsFinalByte(b) == 64 <= b /\ b <= 126

\* while j < len(data) and not (0x40 <= data[j] <= 0x7E): j += 1
RECURSIVE ScanFinal(_, _)
ScanFinal(data, j) ==
    IF j < Len(data) /\ ~IsFinalByte(data[j + 1]) THEN ScanFinal(data, j + 1) ELSE j

\* write's loop from index i (0-based)
RECURSIVE WriteFrom(_, _, _)
WriteFrom(t, data, i) ==
    IF i >= Len(data) THEN t
    ELSE LET c == data[i + 1]
             j == ScanFinal(data, i + 1)
         IN  IF c = ESC /\ j < Len(data)
             THEN WriteFrom(handle_ansi(t, SubSeq(data, i + 1, j + 1)), data, j + 1)
             ELSE WriteFrom(put_byte(t, c), data, i + 1)

write(t, data) == WriteFrom(t, data, 0)

(***************************************************************************)
(* The PTY session: open_terminal, handle_terminal, update_terminal.       *)
(* pty is the operating system's side: the children alive, the master      *)
(* descriptors open, and the byte strings os.write has passed to a master. *)
(***************************************************************************)
\* pty.fork() either returns a new (pid, fd) or raises OSError, which nothing
\* on the way out of run catches
open_terminal(s, spawn_ok) ==
    LET s1 == [s EXCEPT !.terminal = TerminalEmulator(s.scr_h - 2, s.scr_w)]
        id == s.pty.next
    IN  IF ~spawn_ok
        THEN [s1 EXCEPT !.running = FALSE, !.crashed = TRUE]
        ELSE [s1 EXCEPT !.term_fd = id, !.term_pid = id, !.mode = TERMINAL,
                        !.pty.next = id + 1,
                        !.pty.children = s.pty.children \cup {id},
                        !.pty.fds = s.pty.fds \cup {id}]

\* the key table as it would be if Enter sent a carriage return
KeyBytes_enter_cr(key) ==
    IF key = KEY_UP THEN <<ESC, ord("["), ord("A")>>
    ELSE IF key = KEY_DOWN THEN <<ESC, ord("["), ord("B")>>
    ELSE IF key = KEY_RIGHT THEN <<ESC, ord("["), ord("C")>>
    ELSE IF key = KEY_LEFT THEN <<ESC, ord("["), ord("D")>>
    ELSE IF key = KEY_HOME THEN <<ESC, ord("["), ord("H")>>
    ELSE IF key = KEY_END THEN <<ESC, ord("["), ord("F")>>
    ELSE IF key = KEY_PPAGE THEN <<ESC, ord("["), ord("5"), ord("~")>>
    ELSE IF key = KEY_NPAGE THEN <<ESC, ord("["), ord("6"), ord("~")>>
    ELSE IF key = KEY_DC THEN <<ESC, ord("["), ord("3"), ord("~")>>
    ELSE IF key = KEY_IC THEN <<ESC, ord("["), ord("2"), ord("~")>>
    ELSE IF key = KEY_BACKSPACE \/ key = DEL THEN <<BS>>
    ELSE IF key = ENTER THEN <<CR>>
    ELSE IF key = TAB THEN <<TAB>>
    ELSE IF 0 <= key /\ key <= 255 THEN <<key>>
    ELSE <<>>

\* the bytes handle_terminal passes to os.write for a key; <<>>: no call
KeyBytes(key) ==
    IF key = KEY_UP THEN <<ESC, ord("["), ord("A")>>
    ELSE IF key = KEY_DOWN THEN <<ESC, ord("["), ord("B")>>
    ELSE IF key = KEY_RIGHT THEN <<ESC, ord("["), ord("C")>>
    ELSE IF key = KEY_LEFT THEN <<ESC, ord("["), ord("D")>>
    ELSE IF key = KEY_HOME THEN <<ESC, ord("["), ord("H")>>
    ELSE IF key = KEY_END THEN <<ESC, ord("["), ord("F")>>
    ELSE IF key = KEY_PPAGE THEN <<ESC, ord("["), ord("5"), ord("~")>>
    ELSE IF key = KEY_NPAGE THEN <<ESC, ord("["), ord("6"), ord("~")>>
    ELSE IF key = KEY_DC THEN <<ESC, ord("["), ord("3"), ord("~")>>
    ELSE IF key = KEY_IC THEN <<ESC, ord("["), ord("2"), ord("~")>>
    ELSE IF key = KEY_BACKSPACE \/ key = DEL THEN <<BS>>
    ELSE IF key = ENTER THEN <<LF>>
    ELSE IF key = TAB THEN <<TAB>>
    ELSE IF 0 <= key /\ key <= 255 THEN <<key>>
    ELSE <<>>

\* handle_terminal as it would be if Ctrl-W went to the shell like any byte
handle_terminal_forwarding_exit(s, key, write_ok) ==
    IF key = CTRL_W
    THEN [s EXCEPT !.mode = NORMAL,
                   !.pty.written = Append(s.pty.written, <<CTRL_W>>)]
    ELSE IF KeyBytes(key) # <<>> /\ write_ok
    THEN [s EXCEPT !.pty.written = Append(s.pty.written, KeyBytes(key))]
    ELSE s

\* write_ok = FALSE: os.write raises OSError, which handle_terminal swallows
handle_terminal(s, key, write_ok) ==
    IF key = CTRL_W THEN [s EXCEPT !.mode = NORMAL]
    ELSE IF KeyBytes(key) # <<>> /\ write_ok
    THEN [s EXCEPT !.pty.written = Append(s.pty.written, KeyBytes(key))]
    ELSE s

\* poll.kind: "idle" (select reports nothing), "data" (os.read returns
\* poll.data, empty at end of file), "error" (select or os.read raises OSError)
update_terminal(s, poll) ==
    IF s.term_fd = NoneId THEN s
    ELSE IF poll.kind = "data"
    THEN [s EXCEPT !.terminal = write(s.terminal, poll.data)]
    ELSE IF poll.kind = "error"
    THEN [s EXCEPT !.term_fd = NoneId, !.mode = NORMAL]
    ELSE s

(***************************************************************************)
(* The handlers of the modes.                                              *)
(***************************************************************************)
handle_normal(s, key) ==
    LET s0 == [s EXCEPT !.show_dashboard = FALSE]
    IN  IF key = ord("i") THEN [s0 EXCEPT !.mode = INSERT]
        ELSE IF key = ord(":") THEN [s0 EXCEPT !.mode = COMMAND, !.command_text = <<>>]
        ELSE IF key = ord("h") THEN move(s0, -1, 0)
        ELSE IF key = ord("j") THEN move(s0, 0, 1)
        ELSE IF key = ord("k") THEN move(s0, 0, -1)
        ELSE IF key = ord("l") THEN move(s0, 1, 0)
        ELSE IF key = ord("x") THEN delete_char(s0)
        ELSE IF key = ord("o") THEN [newline(s0) EXCEPT !.mode = INSERT]
        ELSE s0

\* for _ in range(n): self.insert(' ')
RECURSIVE InsertSpaces(_, _)
InsertSpaces(s, n) == IF n = 0 THEN s ELSE InsertSpaces(insert(s, ord(" ")), n - 1)

\* completions: what self.lsp.get_completions returns if Tab asks it
handle_insert(s, key, completions) ==
    IF key = ESC THEN [s EXCEPT !.mode = NORMAL, !.ac_suggestions = <<>>]
    ELSE IF key = KEY_UP THEN move(s, 0, -1)
    ELSE IF key = KEY_DOWN THEN move(s, 0, 1)
    ELSE IF key = KEY_LEFT THEN move(s, -1, 0)
    ELSE IF key = KEY_RIGHT /\ s.ac_suggestions = <<>> THEN move(s, 1, 0)
    ELSE IF key = KEY_BACKSPACE \/ key = DEL THEN backspace(save_state(s))
    ELSE IF key = KEY_RIGHT /\ s.ac_suggestions # <<>>
    THEN [replace_word(s, s.ac_suggestions[1]) EXCEPT !.ac_suggestions = <<>>]
    ELSE IF key = TAB
    THEN (IF s.is_python /\ completions # <<>>
          THEN [s EXCEPT !.ac_suggestions = completions,
                         !.mode = AUTOCOMPLETE,
                         !.ac_index = 0]
          ELSE InsertSpaces(save_state(s), TAB_SPACES))
    ELSE IF key = ENTER THEN newline(save_state(s))
    ELSE IF 32 <= key /\ key <= 126 THEN insert(save_state(s), key)
    ELSE s

\* Editor.save: the call is counted; the file is outside the model
save(s) == [s EXCEPT !.saves = s.saves + 1]

\* handle_command as it would be if wq quit without the save
handle_command_wq_as_q(s, key, spawn_ok) ==
    LET cmd == Strip(s.command_text)
        s1 == IF key = ESC THEN [s EXCEPT !.mode = NORMAL]
              ELSE IF key = ENTER
              THEN (IF cmd = Str(<<"w">>) THEN [save(s) EXCEPT !.mode = NORMAL]
                    ELSE IF cmd = Str(<<"q">>) THEN [s EXCEPT !.running = FALSE]
                    ELSE IF cmd = Str(<<"w", "q">>)
                    THEN [s EXCEPT !.running = FALSE]
                    ELSE IF cmd = Str(<<"u">>) THEN [undo(s) EXCEPT !.mode = NORMAL]
                    ELSE IF cmd = Str(<<"r">>) THEN [redo(s) EXCEPT !.mode = NORMAL]
                    ELSE IF cmd = Str(<<"c", "o", "n", "f", "i", "g">>)
                    THEN [s EXCEPT !.mode = CONFIG, !.config_index = 0]
                    ELSE IF cmd = Str(<<"t", "e", "r", "m">>)
                    THEN open_terminal(s, spawn_ok)
                    ELSE [s EXCEPT !.mode = NORMAL])
              ELSE IF key = KEY_BACKSPACE \/ key = DEL
              THEN [s EXCEPT !.command_text = DropLast(s.command_text)]
              ELSE s
    IN  IF 32 <= key /\ key <= 126
        THEN [s1 EXCEPT !.command_text = Append(s1.command_text, key)]
        ELSE s1

\* handle_command as it would be if every text that starts with w saved
handle_command_by_first_letter(s, key, spawn_ok) ==
    LET cmd == Strip(s.command_text)
        s1 == IF key = ESC THEN [s EXCEPT !.mode = NORMAL]
              ELSE IF key = ENTER
              THEN (IF cmd # <<>> /\ cmd[1] = ord("w") /\ cmd # Str(<<"w", "q">>)
                    THEN [save(s) EXCEPT !.mode = NORMAL]
                    ELSE IF cmd = Str(<<"q">>) THEN [s EXCEPT !.running = FALSE]
                    ELSE IF cmd = Str(<<"w", "q">>)
                    THEN [save(s) EXCEPT !.running = FALSE]
                    ELSE IF cmd = Str(<<"u">>) THEN [undo(s) EXCEPT !.mode = NORMAL]
                    ELSE IF cmd = Str(<<"r">>) THEN [redo(s) EXCEPT !.mode = NORMAL]
                    ELSE IF cmd = Str(<<"c", "o", "n", "f", "i", "g">>)
                    THEN [s EXCEPT !.mode = CONFIG, !.config_index = 0]
                    ELSE IF cmd = Str(<<"t", "e", "r", "m">>)
                    THEN open_terminal(s, spawn_ok)
                    ELSE [s EXCEPT !.mode = NORMAL])
              ELSE IF key = KEY_BACKSPACE \/ key = DEL
              THEN [s EXCEPT !.command_text = DropLast(s.command_text)]
              ELSE s
    IN  IF 32 <= key /\ key <= 126
        THEN [s1 EXCEPT !.command_text = Append(s1.command_text, key)]
        ELSE s1

handle_command(s, key, spawn_ok) ==
    LET cmd == Strip(s.command_text)
        s1 == IF key = ESC THEN [s EXCEPT !.mode = NORMAL]
              ELSE IF key = ENTER
              THEN (IF cmd = Str(<<"w">>) THEN [save(s) EXCEPT !.mode = NORMAL]
                    ELSE IF cmd = Str(<<"q">>) THEN [s EXCEPT !.running = FALSE]
                    ELSE IF cmd = Str(<<"w", "q">>)
                    THEN [save(s) EXCEPT !.running = FALSE]
                    ELSE IF cmd = Str(<<"u">>) THEN [undo(s) EXCEPT !.mode = NORMAL]
                    ELSE IF cmd = Str(<<"r">>) THEN [redo(s) EXCEPT !.mode = NORMAL]
                    ELSE IF cmd = Str(<<"c", "o", "n", "f", "i", "g">>)
                    THEN [s EXCEPT !.mode = CONFIG, !.config_index = 0]
                    ELSE IF cmd = Str(<<"t", "e", "r", "m">>)
                    THEN open_terminal(s, spawn_ok)
                    ELSE [s EXCEPT !.mode = NORMAL])
              ELSE IF key = KEY_BACKSPACE \/ key = DEL
              THEN [s EXCEPT !.command_text = DropLast(s.command_text)]
              ELSE s
    IN  IF 32 <= key /\ key <= 126
        THEN [s1 EXCEPT !.command_text = Append(s1.command_text, key)]
        ELSE s1

\* config_options: entry 0 is the line-number toggle, entries 1..6 are colours
NumConfigOptions == 7
IsToggleOption(i) == i = 0

handle_config(s, key) ==
    IF s.is_inputting
    THEN (IF key = ENTER
          THEN LET ok == /\ s.config_input # <<>>
                         /\ s.config_input[1] = ord("#")
                         /\ Len(s.config_input) \in {4, 7}
               IN  [s EXCEPT !.config_hex[s.config_index] =
                                  IF ok THEN s.config_input ELSE @,
                             !.is_inputting = FALSE,
                             !.config_input = <<>>]
          ELSE IF key = ESC
          THEN [s EXCEPT !.is_inputting = FALSE, !.config_input = <<>>]
          ELSE IF key = KEY_BACKSPACE \/ key = DEL
          THEN [s EXCEPT !.config_input = DropLast(s.config_input)]
          ELSE IF 32 <= key /\ key <= 126
          THEN [s EXCEPT !.config_input = Append(s.config_input, key)]
          ELSE s)
    ELSE IF key = ESC \/ key = ord("q") THEN [s EXCEPT !.mode = NORMAL]
    ELSE IF key = ord("j") \/ key = KEY_DOWN
    THEN [s EXCEPT !.config_index = (s.config_index + 1) % NumConfigOptions]
    ELSE IF key = ord("k") \/ key = KEY_UP
    THEN [s EXCEPT !.config_index = (s.config_index - 1) % NumConfigOptions]
    ELSE IF key = ENTER \/ key = ord(" ")
    THEN (IF IsToggleOption(s.config_index)
          THEN [s EXCEPT !.show_line_numbers = ~s.show_line_numbers]
          ELSE [s EXCEPT !.is_inputting = TRUE,
                         !.config_input = s.config_hex[s.config_index]])
    ELSE s

\* handle_autocomplete as it would be if k and Up did not wrap around
handle_autocomplete_unwrapped(s, key, completions) ==
    IF key = ESC THEN [s EXCEPT !.mode = INSERT]
    ELSE IF key = ord("j") \/ key = KEY_DOWN \/ key = TAB
    THEN [s EXCEPT !.ac_index = (s.ac_index + 1) % Len(s.ac_suggestions)]
    ELSE IF key = ord("k") \/ key = KEY_UP
    THEN [s EXCEPT !.ac_index = s.ac_index - 1]
    ELSE IF key = ENTER \/ key = KEY_RIGHT
    THEN [replace_word(s, s.ac_suggestions[s.ac_index + 1])
             EXCEPT !.mode = INSERT, !.ac_suggestions = <<>>]
    ELSE handle_insert([s EXCEPT !.mode = INSERT], key, completions)

handle_autocomplete(s, key, completions) ==
    IF key = ESC THEN [s EXCEPT !.mode = INSERT]
    ELSE IF key = ord("j") \/ key = KEY_DOWN \/ key = TAB
    THEN [s EXCEPT !.ac_index = (s.ac_index + 1) % Len(s.ac_suggestions)]
    ELSE IF key = ord("k") \/ key = KEY_UP
    THEN [s EXCEPT !.ac_index = (s.ac_index - 1) % Len(s.ac_suggestions)]
    ELSE IF key = ENTER \/ key = KEY_RIGHT
    THEN [replace_word(s, s.ac_suggestions[s.ac_index + 1])
             EXCEPT !.mode = INSERT, !.ac_suggestions = <<>>]
    ELSE handle_insert([s EXCEPT !.mode = INSERT], key, completions)

handle_dashboard(s, key) ==
    IF key = ord("i") THEN [s EXCEPT !.show_dashboard = FALSE, !.mode = INSERT]
    ELSE IF key = ord(":")
    THEN [s EXCEPT !.show_dashboard = FALSE, !.mode = COMMAND, !.command_text = <<>>]
    ELSE IF key = ord("q") THEN [s EXCEPT !.running = FALSE]
    ELSE s

(***************************************************************************)
(* Editor.draw, as far as it writes program state: the clamp of scroll.    *)
(* In TERMINAL mode draw_terminal reads the grid cell of every row above    *)
(* the status lines and every column of the window as it is now; a cell the *)
(* grid does not have raises IndexError, which nothing catches.             *)
(***************************************************************************)
draw_terminal_in_range(s) ==
    \A y \in 0..(s.scr_h - 3), x \in 0..(s.scr_w - 1) :
        y < Len(s.terminal.screen) /\ x < Len(s.terminal.screen[y + 1])

draw(s) ==
    IF s.mode = TERMINAL
    THEN (IF s.terminal = NoTerminal \/ draw_terminal_in_range(s) THEN s
          ELSE [s EXCEPT !.running = FALSE, !.crashed = TRUE])
    ELSE IF s.show_dashboard THEN s
    ELSE LET max_scroll == Max(0, Len(get_wrapped_lines(s)) - (s.scr_h - 2))
         IN  [s EXCEPT !.scroll = Min(s.scroll, max_scroll)]

(***************************************************************************)
(* Editor.run: one key through the dispatch of lines 146-174, then the     *)
(* head of the next iteration (update_terminal in TERMINAL mode, draw).    *)
(* env holds what the environment answers during the step.                 *)
(***************************************************************************)
\* the query run makes after handle_insert when the mode is still INSERT
proactive_query(s, completions) ==
    IF s.is_python /\ s.mode = INSERT
    THEN (IF Len(get_current_word(s)) > 1
          THEN [s EXCEPT !.ac_suggestions = completions]
          ELSE [s EXCEPT !.ac_suggestions = <<>>])
    ELSE s

dispatch(s, key, env) ==
    IF key = NO_KEY THEN s
    ELSE IF s.mode = NORMAL
    THEN (IF s.show_dashboard THEN handle_dashboard(s, key) ELSE handle_normal(s, key))
    ELSE IF s.mode = INSERT
    THEN proactive_query(handle_insert(s, key, env.completions), env.proactive)
    ELSE IF s.mode = COMMAND THEN handle_command(s, key, env.spawn_ok)
    ELSE IF s.mode = CONFIG THEN handle_config(s, key)
    ELSE IF s.mode = AUTOCOMPLETE THEN handle_autocomplete(s, key, env.completions)
    ELSE IF s.mode = TERMINAL THEN handle_terminal(s, key, env.write_ok)
    ELSE s

\* the head of the loop as it would be if the descriptor were polled in
\* every mode
next_iteration_polling_always(s, poll) ==
    IF ~s.running THEN s
    ELSE draw(update_terminal(s, poll))

next_iteration(s, poll) ==
    IF ~s.running THEN s
    ELSE draw(IF s.mode = TERMINAL THEN update_terminal(s, poll) ELSE s)

run_step(s, key, env) == next_iteration(dispatch(s, key, env), env.poll)

(***************************************************************************)
(* The state after Editor.__init__ (and the first draw, which changes      *)
(* nothing).  The screen size is what the terminal reports.                *)
(***************************************************************************)
InitialHex ==
    [i \in 0..(NumConfigOptions - 1) |->
        CASE i = 0 -> <<>>
          [] i = 1 -> Str(<<"#", "c", "0", "c", "a", "f", "5">>)
          [] i = 2 -> Str(<<"#", "1", "a", "1", "b", "2", "6">>)
          [] i = 3 -> Str(<<"#", "b", "b", "9", "a", "f", "7">>)
          [] i = 4 -> Str(<<"#", "9", "e", "c", "e", "6", "a">>)
          [] i = 5 -> Str(<<"#", "5", "6", "5", "f", "8", "9">>)
          [] i = 6 -> Str(<<"#", "7", "a", "a", "2", "f", "7">>)]

NoTrack == [phase |-> "idle", base |-> <<>>, n |-> 0, m |-> 0]

\* doc: the lines read from the file ([""] without one); py: the file name
\* ends in .py; dash: no file name was given
InitEditor(doc, py, dash, h, w) ==
    /\ cursor_x = 0
    /\ cursor_y = 0
    /\ scroll = 0
    /\ lines = doc
    /\ mode = NORMAL
    /\ command_text = <<>>
    /\ undo_stack = <<>>
    /\ redo_stack = <<>>
    /\ show_line_numbers = TRUE
    /\ config_index = 0
    /\ config_input = <<>>
    /\ is_inputting = FALSE
    /\ config_hex = InitialHex
    /\ show_dashboard = dash
    /\ ac_suggestions = <<>>
    /\ ac_index = 0
    /\ is_python = py
    /\ term_fd = NoneId
    /\ term_pid = NoneId
    /\ terminal = NoTerminal
    /\ scr_h = h
    /\ scr_w = w
    /\ running = TRUE
    /\ crashed = FALSE
    /\ pty = [next |-> 1, children |-> {}, fds |-> {}, written |-> <<>>]
    /\ saves = 0

(***************************************************************************)
(* Inputs.  A profile names the keys each mode is given, the answers of    *)
(* the completion provider, the command lines typed, and the bounds of     *)
(* the run.                                                                *)
(***************************************************************************)
NoPoll == [kind |-> "idle", data |-> <<>>]

NoEnv ==
    [completions |-> <<>>, proactive |-> <<>>, spawn_ok |-> TRUE,
     write_ok |-> TRUE, poll |-> NoPoll]

IsPrefix(p, q) == Len(p) <= Len(q) /\ SubSeq(q, 1, Len(p)) = p

InBounds(s, P) ==
    /\ Len(s.lines) <= P.max_lines
    /\ \A i \in 1..Len(s.lines) : Len(s.lines[i]) <= P.max_len
    /\ Len(s.undo_stack) + Len(s.redo_stack) <= P.max_hist
    /\ \E word \in P.words : IsPrefix(s.command_text, word)

\* the edits of the document: character insertion, backspace, delete-forward,
\* Enter, the four-space tab, acceptance of a suggestion, NORMAL-mode o
InsertEdits(s, key, env) ==
    \/ key \in {KEY_BACKSPACE, DEL, ENTER}
    \/ key = KEY_RIGHT /\ s.ac_suggestions # <<>>
    \/ key = TAB /\ ~(s.is_python /\ env.completions # <<>>)
    \/ 32 <= key /\ key <= 126

IsEditKey(s, key, env) ==
    \/ s.mode = NORMAL /\ ~s.show_dashboard /\ key \in {ord("x"), ord("o")}
    \/ s.mode = INSERT /\ InsertEdits(s, key, env)
    \/ /\ s.mode = AUTOCOMPLETE
       /\ \/ key \in {ENTER, KEY_RIGHT}
          \/ /\ key \notin {ESC, ord("j"), KEY_DOWN, TAB, ord("k"), KEY_UP}
             /\ InsertEdits(s, key, env)

IsCommandEnter(s, key, word) ==
    s.mode = COMMAND /\ key = ENTER /\ Strip(s.command_text) = word

IsUndoKey(s, key) == IsCommandEnter(s, key, Str(<<"u">>))
IsRedoKey(s, key) == IsCommandEnter(s, key, Str(<<"r">>))

\* track: from the first edit after a redo (or after the start), the state
\* before that edit (base), the edits since (n) and the undos after them (m)
TrackNext(tr, s, key, env) ==
    IF IsUndoKey(s, key)
    THEN (IF tr.phase = "idle" THEN tr
          ELSE [tr EXCEPT !.phase = "undoing", !.m = tr.m + 1])
    ELSE IF IsRedoKey(s, key) THEN NoTrack
    ELSE IF IsEditKey(s, key, env)
    THEN (IF tr.phase = "editing" THEN [tr EXCEPT !.n = tr.n + 1]
          ELSE [phase |-> "editing", base |-> <<Frame(s)>>, n |-> 1, m |-> 0])
    ELSE tr

Step(key, env, P) ==
    LET s2 == run_step(Cur, key, env)
    IN  /\ keys_read < P.max_keys
        /\ keys_read' = keys_read + 1
        /\ InBounds(s2, P)
        /\ Load(s2)
        /\ track' = IF P.tracking THEN TrackNext(track, Cur, key, env) ELSE track
        /\ UNCHANGED <<fed, wrapped>>

KeyNormal(P) ==
    /\ running /\ mode = NORMAL /\ ~show_dashboard
    /\ \E key \in P.normal : Step(key, NoEnv, P)

KeyDashboard(P) ==
    /\ running /\ mode = NORMAL /\ show_dashboard
    /\ \E key \in P.dashboard : Step(key, NoEnv, P)

\* the provider is asked only for a Python file: by Tab, and after the key
KeyInsert(P) ==
    /\ running /\ mode = INSERT
    /\ \E key \in P.insert :
          \E c \in (IF is_python /\ key = TAB THEN P.completions ELSE {<<>>}),
             q \in (IF is_python THEN P.completions ELSE {<<>>}) :
                Step(key, [NoEnv EXCEPT !.completions = c, !.proactive = q], P)

\* a command line is typed whole (one of P.words) before Enter, and Esc
\* leaves an empty command line
KeyCommand(P) ==
    /\ running /\ mode = COMMAND
    /\ \E key \in P.command :
          /\ key = ENTER => command_text \in P.words
          /\ key = ESC => command_text = <<>>
          /\ Step(key, NoEnv, P)

KeyConfig(P) ==
    /\ running /\ mode = CONFIG
    /\ \E key \in P.config : Step(key, NoEnv, P)

KeyAutocomplete(P) ==
    /\ running /\ mode = AUTOCOMPLETE
    /\ \E key \in P.autocomplete : Step(key, NoEnv, P)

\* one turn of the loop in TERMINAL mode: the key (NO_KEY when getch times
\* out) goes to the shell, then the descriptor is polled unless the key left
\* the mode; fed collects the chunks os.read has returned.  The chunks read
\* and written are bounded.
TerminalTick(P) ==
    /\ running /\ mode = TERMINAL
    /\ Len(fed) + Len(pty.written) < P.max_writes
    /\ \E key \in P.terminal, poll \in P.polls :
          /\ key # NO_KEY => keys_read < P.max_keys
          /\ keys_read' = IF key = NO_KEY THEN keys_read ELSE keys_read + 1
          /\ Load(run_step(Cur, key, [NoEnv EXCEPT !.poll = poll]))
          /\ fed' = LET d == dispatch(Cur, key, NoEnv)
                     IN  IF /\ d.mode = TERMINAL /\ d.term_fd # NoneId
                            /\ poll.kind = "data"
                         THEN Append(fed, poll.data)
                         ELSE fed
          /\ UNCHANGED <<track, wrapped>>

(***************************************************************************)
(* Spec: editing.  A new buffer, edited in NORMAL, INSERT, COMMAND and     *)
(* AUTOCOMPLETE mode, with and without the dashboard and the provider.     *)
(***************************************************************************)
EditCompletions ==
    { <<>>, <<Str(<<"a", "a", "a">>), Str(<<"a">>)>> }

EditProfile ==
    [ normal |-> {ord("i"), ord(":"), ord("h"), ord("j"), ord("k"), ord("l"),
                  ord("x"), ord("o"), ESC},
      dashboard |-> {ord("i"), ord(":"), ord("q"), ord("x")},
      insert |-> {ESC, KEY_UP, KEY_DOWN, KEY_LEFT, KEY_RIGHT, DEL, TAB, ENTER,
                  ord("a")},
      command |-> {ENTER, ESC, DEL, ord("u"), ord("r")},
      config |-> {},
      terminal |-> {},
      polls |-> {},
      autocomplete |-> {ESC, ord("j"), ord("k"), ENTER, KEY_RIGHT, ord("a")},
      completions |-> EditCompletions,
      words |-> {Str(<<"u">>), Str(<<"r">>)},
      max_lines |-> MaxLines, max_len |-> MaxLineLen, max_hist |-> MaxHist,
      max_keys |-> MaxKeys, max_writes |-> 0, tracking |-> FALSE ]

Init ==
    /\ \E start \in {<<FALSE, TRUE>>, <<TRUE, FALSE>>, <<FALSE, FALSE>>} :
          InitEditor(<< <<>> >>, start[1], start[2], ScreenH, ScreenW)
    /\ keys_read = 0
    /\ track = NoTrack
    /\ fed = <<>>
    /\ wrapped = <<>>

Next ==
    \/ KeyNormal(EditProfile)
    \/ KeyDashboard(EditProfile)
    \/ KeyInsert(EditProfile)
    \/ KeyCommand(EditProfile)
    \/ KeyAutocomplete(EditProfile)

Spec == Init /\ [][Next]_vars

\* the wrap row of the cursor of s, and the rows of the viewport
CursorRow(s) == CursorWrappedIdx(s, get_wrapped_lines(s))
ViewportRows(s) == s.scr_h - 2

\* the modes whose keys edit the document or move the cursor
InEditingMode == mode \in {NORMAL, INSERT, AUTOCOMPLETE} /\ ~show_dashboard

\* the (dx, dy) of the calls of move in handle_normal, handle_insert
MoveCalls == { <<-1, 0>>, <<1, 0>>, <<0, -1>>, <<0, 1>> }

\* C3: every step outside COMMAND mode that changes the document (an edit)
\* leaves the redo stack empty, so that a redo after it is a no-op
EditClearsRedo ==
    [][(mode # COMMAND /\ lines' # lines) => redo_stack' = <<>>]_vars

\* C4: the document has at least one line, and the cursor is on a line of
\* the document, at a column from 0 to the length of that line
CursorInDocument ==
    /\ Len(lines) >= 1
    /\ 0 <= cursor_y /\ cursor_y < Len(lines)
    /\ 0 <= cursor_x /\ cursor_x <= Len(lines[cursor_y + 1])

\* C4 witness: an undo has put back an earlier document, after the cursor
\* had gone to a second line
CursorInDocumentSeen ==
    /\ redo_stack # <<>>
    /\ redo_stack[1].cursor_y > 0
    /\ cursor_y = 0
    /\ mode = NORMAL

\* C6: in the editing modes the wrap row of the cursor lies in
\* [scroll, scroll + viewport rows)
CursorRowVisible ==
    InEditingMode =>
        /\ scroll <= CursorRow(Cur)
        /\ CursorRow(Cur) < scroll + ViewportRows(Cur)

\* C7: after move(dx, dy) the wrap row of the cursor is in the viewport, and
\* scroll is the old scroll if the row was in the old viewport, the row if
\* it was above, the row minus (viewport rows - 1) if it was below
MoveKeepsCursorVisible ==
    InEditingMode =>
        \A d \in MoveCalls :
            LET e == move(Cur, d[1], d[2])
                row == CursorRow(e)
                rows == ViewportRows(e)
            IN  /\ 0 <= row - e.scroll
                /\ row - e.scroll < rows
                /\ e.scroll = IF row < scroll THEN row
                              ELSE IF row >= scroll + rows THEN row - (rows - 1)
                              ELSE scroll

\* C7 witness: the viewport has been scrolled down by a move, and a move
\* from here scrolls it back up
MoveScrollsSeen ==
    /\ InEditingMode
    /\ scroll > 0
    /\ \E d \in MoveCalls : move(Cur, d[1], d[2]).scroll < scroll

(***************************************************************************)
(* SpecUndo: the editing of Spec, with the edits and undos counted.        *)
(***************************************************************************)
UndoProfile == [EditProfile EXCEPT !.tracking = TRUE]

NextUndo ==
    \/ KeyNormal(UndoProfile)
    \/ KeyDashboard(UndoProfile)
    \/ KeyInsert(UndoProfile)
    \/ KeyCommand(UndoProfile)
    \/ KeyAutocomplete(UndoProfile)

SpecUndo == Init /\ [][NextUndo]_vars

\* C1: after n edits (n <= 100) and then n undos, the lines and the cursor
\* are those from before the first of the edits
UndoRestores ==
    (track.phase = "undoing" /\ track.m = track.n /\ track.n <= UNDO_LIMIT)
        => <<Frame(Cur)>> = track.base

(***************************************************************************)
(* SpecCap: the editor started without a file; one line is typed, a        *)
(* character at a time, and then undone, a frame at a time.                *)
(***************************************************************************)
CapProfile ==
    [ normal |-> {ord(":")},
      dashboard |-> {ord("i")},
      insert |-> {ord("a"), ESC},
      command |-> {ord("u"), ENTER},
      config |-> {},
      terminal |-> {},
      polls |-> {},
      autocomplete |-> {},
      completions |-> {<<>>},
      words |-> {Str(<<"u">>)},
      max_lines |-> 1, max_len |-> CapRun, max_hist |-> CapRun + 1,
      max_keys |-> 4 * CapRun + 4, max_writes |-> 0, tracking |-> FALSE ]

InitCap ==
    /\ InitEditor(<< <<>> >>, FALSE, TRUE, ScreenH, ScreenW)
    /\ keys_read = 0
    /\ track = NoTrack
    /\ fed = <<>>
    /\ wrapped = <<>>

NextCap ==
    \/ KeyDashboard(CapProfile)
    \/ KeyInsert(CapProfile)
    \/ KeyNormal(CapProfile)
    \/ KeyCommand(CapProfile)

SpecCap == InitCap /\ [][NextCap]_vars

\* C2: the undo stack never holds more than 100 frames
UndoStackCapped == Len(undo_stack) <= UNDO_LIMIT

(***************************************************************************)
(* SpecWrap: a file of one or two lines is opened on a terminal of some    *)
(* width, and the layout of its lines is computed.                         *)
(***************************************************************************)
\* a line of n characters, all different: "a", "ab", "abc", ...
WrapLine(n) == [k \in 1..n |-> ord("a") + k - 1]

WrapDocs ==
    { <<WrapLine(a)>> : a \in 0..WrapMaxLen }
        \cup { <<WrapLine(a), WrapLine(b)>> : a, b \in 0..WrapMaxLen }

InitWrap ==
    /\ \E doc \in WrapDocs, width \in 1..WrapMaxW :
          InitEditor(doc, FALSE, FALSE, ScreenH, width + 1 + GUTTER_WIDTH)
    /\ keys_read = 0
    /\ track = NoTrack
    /\ fed = <<>>
    /\ wrapped = <<>>

\* wrapped = self.get_wrapped_lines(), as draw and move call it
Layout ==
    /\ wrapped = <<>>
    /\ wrapped' = get_wrapped_lines(Cur)
    /\ Load(Cur)
    /\ UNCHANGED <<keys_read, track, fed>>

NextWrap == Layout

SpecWrap == InitWrap /\ [][NextWrap]_vars

CeilDiv(a, b) == (a + b - 1) \div b

\* the segments of wrapped that belong to line i, in the order of wrapped
SegmentsOfLine(i) == SelectSeq(wrapped, LAMBDA g : g[1] = i)

\* the text of the segments segs of a line, one after the other
RECURSIVE SegmentsText(_, _)
SegmentsText(line, segs) ==
    IF segs = <<>> THEN <<>>
    ELSE SubSeq(line, Head(segs)[2] + 1, Head(segs)[3])
             \o SegmentsText(line, Tail(segs))

\* C5: at wrap width W = width - gutter - 1, a line of length L > 0 has
\* ceil(L / W) segments, in order, each starting where the one before ends,
\* from 0 to L, whose text is the line; an empty line has the one segment
\* (i, 0, 0); the lines' segments follow one another in the order of the lines
WrapPartitionsLines ==
    wrapped # <<>> =>
        LET W == WrapWidth(scr_w, show_line_numbers)
        IN  /\ \A a, b \in 1..Len(wrapped) : a < b => wrapped[a][1] <= wrapped[b][1]
            /\ \A k \in 1..Len(wrapped) : wrapped[k][1] \in 0..(Len(lines) - 1)
            /\ \A i \in 0..(Len(lines) - 1) :
                  LET line == lines[i + 1]
                      segs == SegmentsOfLine(i)
                      n == Len(segs)
                  IN  IF line = <<>> THEN segs = << <<i, 0, 0>> >>
                      ELSE /\ n = CeilDiv(Len(line), W)
                           /\ segs[1][2] = 0
                           /\ segs[n][3] = Len(line)
                           /\ \A k \in 1..n : segs[k][2] < segs[k][3]
                           /\ \A k \in 1..(n - 1) : segs[k][3] = segs[k + 1][2]
                           /\ SegmentsText(line, segs) = line

\* C5 witness: the layout of an empty line and of a line that is longer than
\* the wrap width and no multiple of it
WrapPartitionsSeen ==
    /\ wrapped # <<>>
    /\ \E i \in 1..Len(lines) : lines[i] = <<>>
    /\ \E i \in 1..Len(lines) :
          /\ Len(lines[i]) > WrapWidth(scr_w, show_line_numbers)
          /\ Len(lines[i]) % WrapWidth(scr_w, show_line_numbers) # 0

(***************************************************************************)
(* SpecTerm: :term is typed, and the shell's output arrives in chunks.     *)
(***************************************************************************)
TermChunks ==
    { <<ESC>>,
      Str(<<"[", "2", "J">>),
      <<ESC>> \o Str(<<"[", "2", "J">>),
      <<ESC>> \o Str(<<"[", "1", ";", "1", "H">>),
      Str(<<"h", "i">>),
      <<ESC>> \o Str(<<"[", "3", "1", "m">>),
      Str(<<"X">>),
      <<ESC>> \o Str(<<"[", "0", "m">>),
      <<LF>> }

TermProfile ==
    [ normal |-> {ord(":")},
      dashboard |-> {},
      insert |-> {},
      command |-> {ord("t"), ord("e"), ord("r"), ord("m"), ENTER},
      config |-> {},
      terminal |-> {NO_KEY},
      polls |-> { [kind |-> "data", data |-> c] : c \in TermChunks },
      autocomplete |-> {},
      completions |-> {<<>>},
      words |-> {Str(<<"t", "e", "r", "m">>)},
      max_lines |-> 1, max_len |-> 0, max_hist |-> 0,
      max_keys |-> 6, max_writes |-> MaxWrites, tracking |-> FALSE ]

InitTerm ==
    /\ InitEditor(<< <<>> >>, FALSE, FALSE, ScreenH, ScreenW)
    /\ keys_read = 0
    /\ track = NoTrack
    /\ fed = <<>>
    /\ wrapped = <<>>

NextTerm ==
    \/ KeyNormal(TermProfile)
    \/ KeyCommand(TermProfile)
    \/ TerminalTick(TermProfile)

SpecTerm == InitTerm /\ [][NextTerm]_vars

\* the bytes of the chunks cs, one after the other
RECURSIVE Flatten(_)
Flatten(cs) == IF cs = <<>> THEN <<>> ELSE Head(cs) \o Flatten(Tail(cs))

\* what of a terminal shows: the grid, the cursor, the current attribute
Shown(t) ==
    [screen |-> t.screen, cursor_x |-> t.cursor_x, cursor_y |-> t.cursor_y,
     current_attr |-> t.current_attr]

\* the grid with all cells blank but those of row 0 that cells gives
GridWithRow0(cells) ==
    [y \in 1..(scr_h - 2) |->
        [x \in 1..scr_w |->
            IF y = 1 /\ x <= Len(cells) THEN cells[x] ELSE BlankCell]]

\* C8: however the stream is cut into chunks, the terminal shows what one
\* write of the whole stream to a new terminal shows
ChunkingIsInvisible ==
    (mode = TERMINAL /\ fed # <<>>) =>
        Shown(terminal) = Shown(write(TerminalEmulator(scr_h - 2, scr_w), Flatten(fed)))

\* C9: after ESC[2J, ESC[1;1H and "hi" every cell is blank but 'h' at (0, 0)
\* and 'i' at (0, 1), and the cursor is at (0, 2)
ClearHomeHi ==
    (/\ mode = TERMINAL
     /\ fed = << <<ESC>> \o Str(<<"[", "2", "J">>),
                 <<ESC>> \o Str(<<"[", "1", ";", "1", "H">>),
                 Str(<<"h", "i">>) >>)
        => /\ [y \in 1..(scr_h - 2) |-> [x \in 1..scr_w |-> terminal.screen[y][x][1]]]
                = [y \in 1..(scr_h - 2) |->
                      [x \in 1..scr_w |->
                          IF y = 1 /\ x = 1 THEN ord("h")
                          ELSE IF y = 1 /\ x = 2 THEN ord("i")
                          ELSE ord(" ")]]
           /\ terminal.cursor_y = 0
           /\ terminal.cursor_x = 2

\* C10: after ESC[31m and "X" the grid holds a red X (pair 41) at (0, 0) and
\* nothing else; after a following ESC[0m and another "X" the second X has
\* the default attribute, and still no byte of the sequences is in the grid
RedThenReset ==
    /\ (mode = TERMINAL
           /\ fed = << <<ESC>> \o Str(<<"[", "3", "1", "m">>), Str(<<"X">>) >>)
          => terminal.screen
                 = GridWithRow0(<< <<ord("X"), color_pair(FG_PAIR_BASE + 1)>> >>)
    /\ (mode = TERMINAL
           /\ fed = << <<ESC>> \o Str(<<"[", "3", "1", "m">>), Str(<<"X">>),
                       <<ESC>> \o Str(<<"[", "0", "m">>), Str(<<"X">>) >>)
          => terminal.screen
                 = GridWithRow0(<< <<ord("X"), color_pair(FG_PAIR_BASE + 1)>>,
                                   <<ord("X"), color_pair(DEFAULT_PAIR)>> >>)

\* the rows of t after a scroll: row 0 gone, a blank row at the bottom
ScrolledRows(rows, w) == Tail(rows) \o <<BlankRow(w)>>

\* C11: a line feed on the last row discards row 0, appends a blank row and
\* keeps the cursor on row H - 1, and above the last row only moves the
\* cursor down; the column stays.  So does the wrap of a character written
\* in the last cell.  H + 1 line feeds on a new grid leave it blank with
\* the cursor at (H - 1, 0)
LineFeedScrolls ==
    mode = TERMINAL =>
        LET t == terminal
            fed_lf == write(t, <<LF>>)
            fed_x == write(t, <<ord("X")>>)
            last == t.cursor_y = t.h - 1
        IN  /\ fed_lf.cursor_x = t.cursor_x
            /\ fed_lf.cursor_y = IF last THEN t.h - 1 ELSE t.cursor_y + 1
            /\ fed_lf.screen = IF last THEN ScrolledRows(t.screen, t.w) ELSE t.screen
            /\ (last /\ t.cursor_x = t.w - 1) =>
                  /\ fed_x.cursor_y = t.h - 1
                  /\ fed_x.screen =
                        ScrolledRows([t.screen EXCEPT ![t.h][t.w] =
                                         <<ord("X"), t.current_attr>>], t.w)
            /\ (Len(fed) = t.h + 1 /\ \A i \in 1..Len(fed) : fed[i] = <<LF>>) =>
                  /\ t.screen = [y \in 1..t.h |-> BlankRow(t.w)]
                  /\ t.cursor_y = t.h - 1
                  /\ t.cursor_x = 0

\* C11 witness: text has been written, and the cursor is on the last row,
\* where the next line feed scrolls the text's row away
LineFeedScrollsSeen ==
    /\ mode = TERMINAL
    /\ terminal.cursor_y = terminal.h - 1
    /\ terminal.screen[1] # BlankRow(terminal.w)
    /\ terminal.screen[1] # terminal.screen[terminal.h]

\* the printable bytes written in PrintableStored
PrintableBytes == {ord(" "), ord("X"), ord("["), ord("~")}

\* C20: a printable byte is stored with the current attribute in the cell
\* at the cursor and no other cell changes; the column advances by one;
\* past the last column the cursor goes to column 0 of the next row, and
\* the grid scrolls by one row if that row is past the last row
PrintableStored ==
    mode = TERMINAL =>
        \A c \in PrintableBytes :
            LET t == terminal
                after == write(t, <<c>>)
                stored == [t.screen EXCEPT ![t.cursor_y + 1][t.cursor_x + 1] =
                              <<c, t.current_attr>>]
            IN  IF t.cursor_x + 1 < t.w
                THEN /\ after.screen = stored
                     /\ after.cursor_x = t.cursor_x + 1
                     /\ after.cursor_y = t.cursor_y
                ELSE /\ after.cursor_x = 0
                     /\ IF t.cursor_y + 1 < t.h
                        THEN /\ after.screen = stored
                             /\ after.cursor_y = t.cursor_y + 1
                        ELSE /\ after.screen = ScrolledRows(stored, t.w)
                             /\ after.cursor_y = t.h - 1

\* C20 witness: a row has been filled and the cursor has wrapped to the
\* next row
PrintableStoredSeen ==
    /\ mode = TERMINAL
    /\ terminal.cursor_y > 0
    /\ \A x \in 1..terminal.w : terminal.screen[1][x][1] # ord(" ")
    /\ \A i \in 1..Len(fed) : \A k \in 1..Len(fed[i]) : fed[i][k] # LF

(***************************************************************************)
(* SpecQuit: a line is typed, with or without a file name, and the         *)
(* commands w, q and wq are given.                                         *)
(***************************************************************************)
QuitProfile ==
    [ normal |-> {ord("i"), ord(":")},
      dashboard |-> {ord("i"), ord(":"), ord("q")},
      insert |-> {ord("a"), ESC},
      command |-> {ord("w"), ord("q"), ENTER, DEL},
      config |-> {},
      terminal |-> {},
      polls |-> {},
      autocomplete |-> {},
      completions |-> {<<>>},
      words |-> {Str(<<"w">>), Str(<<"q">>), Str(<<"w", "q">>)},
      max_lines |-> 1, max_len |-> MaxLineLen, max_hist |-> MaxLineLen,
      max_keys |-> MaxKeys, max_writes |-> 0, tracking |-> FALSE ]

InitQuit ==
    /\ \E dash \in BOOLEAN : InitEditor(<< <<>> >>, FALSE, dash, ScreenH, ScreenW)
    /\ keys_read = 0
    /\ track = NoTrack
    /\ fed = <<>>
    /\ wrapped = <<>>

NextQuit ==
    \/ KeyNormal(QuitProfile)
    \/ KeyDashboard(QuitProfile)
    \/ KeyInsert(QuitProfile)
    \/ KeyCommand(QuitProfile)

SpecQuit == InitQuit /\ [][NextQuit]_vars

\* C12: a key is processed only while the loop runs; and the key that finds
\* the command line wq and leaves it as it is (Enter) ends the loop, after
\* one call of save, with the document, the cursor and the history as
\* they were
WqSavesOnceAndQuits ==
    [][/\ running
       /\ (mode = COMMAND /\ command_text = Str(<<"w", "q">>)
              /\ command_text' = command_text)
            => /\ ~running'
               /\ saves' = saves + 1
               /\ <<lines, cursor_x, cursor_y, undo_stack, redo_stack>>'
                     = <<lines, cursor_x, cursor_y, undo_stack, redo_stack>>]_vars

\* C12 witness: wq and Enter on a buffer with typed text: the loop has
\* ended and save has been called once
WqSavesOnceAndQuitsSeen ==
    /\ ~running
    /\ command_text = Str(<<"w", "q">>)
    /\ lines # << <<>> >>
    /\ saves = 1

(***************************************************************************)
(* SpecAccept: a Python file is opened, the cursor is taken to a word, and *)
(* the provider's suggestions are asked for, walked through and accepted.  *)
(***************************************************************************)
AcceptDocs ==
    { << Str(<<"p", "r", "i">>) >>,
      << Str(<<"x", " ", "p", "r", "i", "[", "a">>) >>,
      << <<>>, Str(<<"a", "_", "1">>) >> }

AcceptCompletions ==
    { <<>>, <<Str(<<"p", "r", "i", "n", "t">>), Str(<<"p", "r">>)>> }

AcceptProfile ==
    [ normal |-> {ord("i"), ord("l"), ord("j")},
      dashboard |-> {},
      insert |-> {TAB, KEY_RIGHT},
      command |-> {},
      config |-> {},
      terminal |-> {},
      polls |-> {},
      autocomplete |-> {ord("j"), ord("k"), ENTER, KEY_RIGHT, ESC},
      completions |-> AcceptCompletions,
      words |-> {<<>>},
      max_lines |-> MaxLines, max_len |-> 3 * MaxLineLen, max_hist |-> MaxHist + 1,
      max_keys |-> MaxKeys, max_writes |-> 0, tracking |-> FALSE ]

InitAccept ==
    /\ \E doc \in AcceptDocs : InitEditor(doc, TRUE, FALSE, ScreenH, ScreenW)
    /\ keys_read = 0
    /\ track = NoTrack
    /\ fed = <<>>
    /\ wrapped = <<>>

NextAccept ==
    \/ KeyNormal(AcceptProfile)
    \/ KeyInsert(AcceptProfile)
    \/ KeyAutocomplete(AcceptProfile)

SpecAccept == InitAccept /\ [][NextAccept]_vars

\* the length of the longest run of letters, digits and underscores that
\* ends at column c of line
WordLengthBefore(line, c) ==
    CHOOSE n \in 0..c :
        /\ \A k \in (c - n + 1)..c : IsWordChar(line[k])
        /\ n < c => ~IsWordChar(line[c - n])

\* C13: Enter or Right in AUTOCOMPLETE, with the word w before the cursor
\* column c and the chosen suggestion s, puts s in the place of columns
\* [c - |w|, c), leaves the text before and after and the other lines as
\* they are, takes the cursor to column c - |w| + |s|, goes back to INSERT
\* and empties the suggestion list
AcceptReplacesWord ==
    mode = AUTOCOMPLETE =>
        \A key \in {ENTER, KEY_RIGHT} :
            LET line == lines[cursor_y + 1]
                c == cursor_x
                n == WordLengthBefore(line, c)
                sug == ac_suggestions[ac_index + 1]
                e == run_step(Cur, key, NoEnv)
            IN  /\ e.lines = [lines EXCEPT ![cursor_y + 1] =
                                 SubSeq(line, 1, c - n) \o sug
                                     \o SubSeq(line, c + 1, Len(line))]
                /\ e.cursor_x = c - n + Len(sug)
                /\ e.cursor_y = cursor_y
                /\ e.mode = INSERT
                /\ e.ac_suggestions = <<>>

\* C13 witness: "pri" with the cursor at column 3 has become "print" with
\* the cursor at column 5
AcceptReplacesWordSeen ==
    /\ mode = INSERT
    /\ lines = << Str(<<"p", "r", "i", "n", "t">>) >>
    /\ cursor_x = 5
    /\ undo_stack # <<>>
    /\ undo_stack[Len(undo_stack)].lines = << Str(<<"p", "r", "i">>) >>
    /\ undo_stack[Len(undo_stack)].cursor_x = 3
    /\ ac_suggestions = <<>>

(***************************************************************************)
(* SpecSession: :term is typed, keys go to the shell, the shell's output   *)
(* is polled, the terminal is left with Ctrl-W or by a failed read, and    *)
(* :term is typed again.                                                   *)
(***************************************************************************)
SessionPolls ==
    { [kind |-> "idle", data |-> <<>>],
      [kind |-> "data", data |-> Str(<<"X">>)],
      [kind |-> "data", data |-> <<>>],
      [kind |-> "error", data |-> <<>>] }

SessionProfile ==
    [ normal |-> {ord(":")},
      dashboard |-> {},
      insert |-> {},
      command |-> {ord("t"), ord("e"), ord("r"), ord("m"), ENTER},
      config |-> {},
      terminal |-> {NO_KEY, CTRL_W, KEY_UP, DEL, ord("a")},
      polls |-> SessionPolls,
      autocomplete |-> {},
      completions |-> {<<>>},
      words |-> {Str(<<"t", "e", "r", "m">>)},
      max_lines |-> 1, max_len |-> 0, max_hist |-> 0,
      max_keys |-> 2 * MaxKeys, max_writes |-> MaxWrites, tracking |-> FALSE ]

NextSession ==
    \/ KeyNormal(SessionProfile)
    \/ KeyCommand(SessionProfile)
    \/ TerminalTick(SessionProfile)

SpecSession == InitTerm /\ [][NextSession]_vars

\* C14: Ctrl-W in TERMINAL mode, whatever the poll would find, leaves the
\* mode NORMAL and the session as it was: nothing written, no descriptor
\* closed, no child ended, the same descriptor, pid and grid
ExitKeepsSession ==
    mode = TERMINAL =>
        \A poll \in SessionPolls :
            LET e == run_step(Cur, CTRL_W, [NoEnv EXCEPT !.poll = poll])
            IN  /\ e.mode = NORMAL
                /\ e.pty = pty
                /\ e.term_fd = term_fd
                /\ e.term_pid = term_pid
                /\ e.terminal = terminal

\* C14 witness: the terminal has been left with Ctrl-W after output and
\* input, and the session is still there
ExitKeepsSessionSeen ==
    /\ mode = NORMAL
    /\ term_fd # NoneId
    /\ term_fd \in pty.fds
    /\ term_pid \in pty.children
    /\ fed # <<>>
    /\ pty.written # <<>>

\* C15: at most one child and one master descriptor exist at any time
OneSession ==
    /\ Cardinality(pty.children) <= 1
    /\ Cardinality(pty.fds) <= 1

\* C16: in TERMINAL mode a poll that finds a read error or the end of file
\* (a read of no bytes) drops the descriptor and leaves the mode NORMAL in
\* the same turn of the loop
DeadSessionLeft ==
    mode = TERMINAL =>
        \A poll \in { p \in SessionPolls :
                         p.kind = "error" \/ (p.kind = "data" /\ p.data = <<>>) } :
            LET e == run_step(Cur, NO_KEY, [NoEnv EXCEPT !.poll = poll])
            IN  e.mode = NORMAL /\ e.term_fd = NoneId

\* every code getch can return for a key, Ctrl-W excepted
KeyEvents == (0..511) \ {CTRL_W}

\* the key table of the terminal mode, with the given codes as Backspace;
\* a code the table does not list has no bytes
TableBytes(key, backspaces) ==
    CASE key = KEY_UP -> <<27, 91, 65>>
      [] key = KEY_DOWN -> <<27, 91, 66>>
      [] key = KEY_RIGHT -> <<27, 91, 67>>
      [] key = KEY_LEFT -> <<27, 91, 68>>
      [] key = KEY_HOME -> <<27, 91, 72>>
      [] key = KEY_END -> <<27, 91, 70>>
      [] key = KEY_PPAGE -> <<27, 91, 53, 126>>
      [] key = KEY_NPAGE -> <<27, 91, 54, 126>>
      [] key = KEY_DC -> <<27, 91, 51, 126>>
      [] key = KEY_IC -> <<27, 91, 50, 126>>
      [] key \in backspaces -> <<8>>
      [] key \notin backspaces /\ key = 10 -> <<10>>
      [] key \notin backspaces /\ key = 9 -> <<9>>
      [] key \notin backspaces \cup {9, 10} /\ key \in 0..255 -> <<key>>
      [] OTHER -> <<>>

\* a key of the terminal mode sends exactly the bytes of the table, in one
\* write, and leaves everything else as it was
SendsTable(backspaces) ==
    mode = TERMINAL =>
        \A key \in KeyEvents :
            LET e == run_step(Cur, key, NoEnv)
                bytes == TableBytes(key, backspaces)
            IN  /\ e.mode = TERMINAL
                /\ e.pty.written =
                       IF bytes = <<>> THEN pty.written
                       ELSE Append(pty.written, bytes)
                /\ e = [Cur EXCEPT !.pty.written = e.pty.written]

\* C17 (as it holds): with Backspace being KEY_BACKSPACE or the byte 127,
\* every key other than Ctrl-W sends the bytes of the table (nothing for a
\* code above 255 that the table does not list) and the mode stays TERMINAL
KeysSendTable == SendsTable({KEY_BACKSPACE, DEL})

\* C17 (as stated): Backspace is the Backspace key and every other byte,
\* 127 among them, is sent as itself
KeysSendTableLiteral == SendsTable({KEY_BACKSPACE})

\* C17 witness: an arrow key, the byte 127 and a letter have been sent
KeysSendTableSeen ==
    /\ mode = TERMINAL
    /\ \E i, j, k \in 1..Len(pty.written) :
          /\ pty.written[i] = <<27, 91, 65>>
          /\ pty.written[j] = <<8>>
          /\ pty.written[k] = <<97>>

\* C18: every step outside COMMAND mode that changes the document (an
\* edit) pushes exactly one frame, which holds the lines and the cursor of
\* before the edit
EditPushesOneFrame ==
    [][(mode # COMMAND /\ lines' # lines) =>
          undo_stack' = Append(undo_stack, Frame(Cur))]_vars

\* C19: backspace at (0,0) and x at the end of the line leave the lines, the
\* cursor and both stacks as they were, and so do undo and redo on an empty
\* stack
EmptyEditsChangeNothing ==
    LET Same(e) == /\ e.lines = lines
                   /\ e.cursor_x = cursor_x /\ e.cursor_y = cursor_y
                   /\ e.undo_stack = undo_stack
                   /\ e.redo_stack = redo_stack
    IN  /\ (mode = INSERT /\ cursor_x = 0 /\ cursor_y = 0) =>
              /\ Same(run_step(Cur, DEL, NoEnv))
              /\ Same(run_step(Cur, KEY_BACKSPACE, NoEnv))
        /\ (mode = NORMAL /\ ~show_dashboard
              /\ cursor_x = Len(lines[cursor_y + 1])) =>
              Same(run_step(Cur, ord("x"), NoEnv))
        /\ undo_stack = <<>> => Same(undo(Cur))
        /\ redo_stack = <<>> => Same(redo(Cur))

(***************************************************************************)
(* SpecCommand: a line is typed and command lines are entered that are     *)
(* commands, commands with blanks around them, and other texts.            *)
(***************************************************************************)
CommandProfile ==
    [ normal |-> {ord("i"), ord(":")},
      dashboard |-> {ord("i"), ord(":")},
      insert |-> {ord("a"), ESC},
      command |-> {ord("w"), ord("q"), ord("x"), ord("u"), ord(" "), ENTER},
      config |-> {},
      terminal |-> {},
      polls |-> {},
      autocomplete |-> {},
      completions |-> {<<>>},
      words |-> {Str(<<" ", "w", " ">>), Str(<<"w", "q", " ">>),
                 Str(<<"w", "x">>), Str(<<"x", "w">>), Str(<<" ", "q">>),
                 Str(<<"q", "w">>), Str(<<"u", "u">>), Str(<<" ", "u">>)},
      max_lines |-> 1, max_len |-> 1, max_hist |-> MaxHist + 1,
      max_keys |-> MaxKeys, max_writes |-> 0, tracking |-> FALSE ]

NextCommand ==
    \/ KeyNormal(CommandProfile)
    \/ KeyDashboard(CommandProfile)
    \/ KeyInsert(CommandProfile)
    \/ KeyCommand(CommandProfile)

SpecCommand == InitQuit /\ [][NextCommand]_vars

\* the texts handle_command compares the command line with
CommandTokens ==
    { <<119>>, <<113>>, <<119, 113>>, <<117>>, <<114>>,
      <<99, 111, 110, 102, 105, 103>>, <<116, 101, 114, 109>> }

\* text is the token with any number of blanks before and after it
IsPadded(text, token) ==
    \E a, b \in 0..Len(text) :
        text = [i \in 1..a |-> 32] \o token \o [i \in 1..b |-> 32]

\* Enter found a command line that is no command: only the mode changes
Discarded(e) ==
    /\ e.mode = NORMAL /\ e.running
    /\ e.lines = lines /\ e.cursor_x = cursor_x /\ e.cursor_y = cursor_y
    /\ e.undo_stack = undo_stack /\ e.redo_stack = redo_stack
    /\ e.pty = pty /\ e.term_fd = term_fd /\ e.term_pid = term_pid
    /\ e.terminal = terminal
    /\ e.saves = saves

\* C21 (as it holds): Enter on a command line that is, blanks before and
\* after it aside, none of w, q, wq, u, r, config, term is discarded: the
\* mode becomes NORMAL and the document, the cursor, the history and the
\* session stay, with no save; w with blanks around it does save
UnknownCommandDiscarded ==
    mode = COMMAND =>
        LET e == run_step(Cur, ENTER, NoEnv)
        IN  /\ (\A token \in CommandTokens : ~IsPadded(command_text, token))
                  => Discarded(e)
            /\ IsPadded(command_text, <<119>>) => e.saves = saves + 1

\* C21 (as stated): Enter on any command line that is not exactly one of
\* the seven texts is discarded
InexactCommandDiscarded ==
    mode = COMMAND =>
        (command_text \notin CommandTokens =>
            Discarded(run_step(Cur, ENTER, NoEnv)))

\* C21 witness: with a line typed and a frame on the undo stack, Enter has
\* been pressed on the command line wx
UnknownCommandDiscardedSeen ==
    /\ mode = NORMAL /\ running
    /\ command_text = <<119, 120>>
    /\ undo_stack # <<>>
    /\ saves = 0

(***************************************************************************)
(* SpecSpawn: the sessions of SpecSession, where pty.fork may also fail.   *)
(***************************************************************************)
\* Enter on the command line term when pty.fork raises OSError
TermSpawnFails(P) ==
    /\ running /\ mode = COMMAND
    /\ command_text \in P.words
    /\ Step(ENTER, [NoEnv EXCEPT !.spawn_ok = FALSE], P)

NextSpawn ==
    \/ KeyNormal(SessionProfile)
    \/ KeyCommand(SessionProfile)
    \/ TerminalTick(SessionProfile)
    \/ TermSpawnFails(SessionProfile)

SpecSpawn == InitTerm /\ [][NextSpawn]_vars

\* C22: when the fork of the shell fails on Enter of the command term, the
\* loop goes on, in NORMAL mode, with no descriptor, pid or grid kept
SpawnFailureSurvived ==
    (mode = COMMAND /\ IsPadded(command_text, <<116, 101, 114, 109>>)) =>
        LET e == run_step(Cur, ENTER, [NoEnv EXCEPT !.spawn_ok = FALSE])
        IN  /\ e.running /\ ~e.crashed
            /\ e.mode = NORMAL
            /\ e.term_fd = NoneId /\ e.term_pid = NoneId
            /\ e.terminal = NoTerminal

\* C23: o in NORMAL mode puts an empty line below the line of the cursor,
\* leaves every line there was as it is, wherever the cursor is in its line,
\* and goes to column 0 of the new line in INSERT mode
OpenLineBelow ==
    (mode = NORMAL /\ ~show_dashboard) =>
        LET e == run_step(Cur, ord("o"), NoEnv)
        IN  /\ e.lines = SubSeq(lines, 1, cursor_y + 1) \o << <<>> >>
                             \o SubSeq(lines, cursor_y + 2, Len(lines))
            /\ e.cursor_y = cursor_y + 1
            /\ e.cursor_x = 0
            /\ e.mode = INSERT

\* the keys handle_autocomplete has no branch of its own for, Esc counted
\* among them
ForwardedKeys ==
    (0..511) \ {ord("j"), KEY_DOWN, TAB, ord("k"), KEY_UP, ENTER, KEY_RIGHT}

\* C24: in AUTOCOMPLETE mode a key other than j, Down, Tab, k, Up, Enter and
\* Right, Esc included, gives the mode, the document, the cursor and the
\* suggestion list that the INSERT handler gives for it from the same state
OtherKeysAsInsert ==
    mode = AUTOCOMPLETE =>
        \A key \in ForwardedKeys :
            LET a == handle_autocomplete(Cur, key, <<>>)
                b == handle_insert([Cur EXCEPT !.mode = INSERT], key, <<>>)
            IN  /\ a.mode = b.mode
                /\ a.lines = b.lines
                /\ a.cursor_x = b.cursor_x /\ a.cursor_y = b.cursor_y
                /\ a.ac_suggestions = b.ac_suggestions

\* C25: Tab in INSERT mode opens the list, at its first entry, exactly when
\* there is a word left of the cursor and the provider has candidates for
\* it; otherwise it puts four blanks at the cursor, pushes one frame and
\* stays in INSERT mode
TabQueriesOnWord ==
    mode = INSERT =>
        \A c \in (IF is_python THEN AcceptCompletions ELSE {<<>>}) :
            LET e == handle_insert(Cur, TAB, c)
                line == lines[cursor_y + 1]
                word == WordLengthBefore(line, cursor_x)
            IN  IF word > 0 /\ c # <<>>
                THEN /\ e.mode = AUTOCOMPLETE
                     /\ e.ac_index = 0
                     /\ e.ac_suggestions = c
                     /\ e.lines = lines
                     /\ e.undo_stack = undo_stack
                ELSE /\ e.mode = INSERT
                     /\ e.lines = [lines EXCEPT ![cursor_y + 1] =
                            SubSeq(line, 1, cursor_x) \o <<32, 32, 32, 32>>
                               \o SubSeq(line, cursor_x + 1, Len(line))]
                     /\ e.cursor_x = cursor_x + 4 /\ e.cursor_y = cursor_y
                     /\ e.undo_stack = Append(undo_stack, Frame(Cur))

\* C26: a parameter field that is no number counts as 0 and the other
\* fields of the sequence keep their values: handle_ansi on ESC [ 2 ; ? H
\* goes to the second row, first column, and on ESC [ ? ; 3 1 m sets the red
\* foreground
BadFieldAloneIsZero ==
    (terminal # NoTerminal /\ terminal.h >= 2) =>
        LET cup == handle_ansi(terminal, <<27, 91, 50, 59, 63, 72>>)
            sgr == handle_ansi(terminal, <<27, 91, 63, 59, 51, 49, 109>>)
        IN  /\ cup.cursor_y = 1 /\ cup.cursor_x = 0
            /\ sgr.current_attr = color_pair(FG_PAIR_BASE + 1)

(***************************************************************************)
(* SpecGrid: :term is typed, the shell's output arrives, and the window    *)
(* changes its size.                                                       *)
(***************************************************************************)
GridChunks ==
    { <<88>>, <<LF>>, <<CR, 88>>, <<BS>>, <<ESC, 91, 50, 74>>,
      <<ESC, 91, 57, 59, 57, 72, 88>> }

\* <<height, width>> of the window, as getmaxyx reports them
GridSizes ==
    { <<ScreenH, ScreenW>>, <<ScreenH + 1, ScreenW>>, <<ScreenH - 1, 1>> }

GridProfile ==
    [TermProfile EXCEPT
        !.polls = { [kind |-> "data", data |-> c] : c \in GridChunks }]

\* the window is resized while the loop waits in getch
Resize ==
    /\ running
    /\ \E size \in GridSizes :
          /\ size # <<scr_h, scr_w>>
          /\ Load([Cur EXCEPT !.scr_h = size[1], !.scr_w = size[2]])
    /\ UNCHANGED <<keys_read, track, fed, wrapped>>

NextGrid ==
    \/ KeyNormal(GridProfile)
    \/ KeyCommand(GridProfile)
    \/ TerminalTick(GridProfile)
    \/ Resize

SpecGrid == InitTerm /\ [][NextGrid]_vars

\* C27: the grid keeps its h rows of w cells and the cursor stays on a cell
\* of it, and no draw has read a cell the grid does not have
GridAccessInRange ==
    terminal # NoTerminal =>
        /\ Len(terminal.screen) = terminal.h
        /\ \A y \in 1..terminal.h : Len(terminal.screen[y]) = terminal.w
        /\ 0 <= terminal.cursor_y /\ terminal.cursor_y < terminal.h
        /\ 0 <= terminal.cursor_x /\ terminal.cursor_x < terminal.w
        /\ ~crashed

(***************************************************************************)
(* SpecCycle: the documents of SpecAccept with a list of three             *)
(* suggestions, so that forward and backward differ.                       *)
(***************************************************************************)
CycleCompletions ==
    { <<>>, <<Str(<<"p", "r", "i", "n", "t">>), Str(<<"p", "r">>),
              Str(<<"p", "r", "i">>)>> }

CycleProfile == [AcceptProfile EXCEPT !.completions = CycleCompletions]

NextCycle ==
    \/ KeyNormal(CycleProfile)
    \/ KeyInsert(CycleProfile)
    \/ KeyAutocomplete(CycleProfile)

SpecCycle == InitAccept /\ [][NextCycle]_vars

\* C28: in AUTOCOMPLETE mode the list has entries and ac_index is the index
\* of one of them; j, Down and Tab go to the next entry and from the last to
\* the first, k and Up to the one before and from the first to the last
SelectionInRange ==
    mode = AUTOCOMPLETE =>
        LET n == Len(ac_suggestions)
            after(key) == run_step(Cur, key, NoEnv)
        IN  /\ n >= 1
            /\ 0 <= ac_index /\ ac_index < n
            /\ \A key \in {ord("j"), KEY_DOWN, TAB} :
                  /\ after(key).ac_index = IF ac_index = n - 1 THEN 0 ELSE ac_index + 1
                  /\ after(key).mode = AUTOCOMPLETE
                  /\ after(key).ac_suggestions = ac_suggestions
            /\ \A key \in {ord("k"), KEY_UP} :
                  /\ after(key).ac_index = IF ac_index = 0 THEN n - 1 ELSE ac_index - 1
                  /\ after(key).mode = AUTOCOMPLETE
                  /\ after(key).ac_suggestions = ac_suggestions

\* C28 witness: the selection is on the last of three suggestions
SelectionInRangeSeen ==
    /\ mode = AUTOCOMPLETE
    /\ Len(ac_suggestions) = 3
    /\ ac_index = 2

(***************************************************************************)
(* SpecHistory: a few edits, then undos and redos in any order, with       *)
(* several frames on both stacks.                                          *)
(***************************************************************************)
HistoryProfile ==
    [ normal |-> {ord("i"), ord(":")},
      dashboard |-> {},
      insert |-> {ord("a"), ENTER, ESC},
      command |-> {ord("u"), ord("r"), ENTER},
      config |-> {},
      terminal |-> {},
      polls |-> {},
      autocomplete |-> {},
      completions |-> {<<>>},
      words |-> {Str(<<"u">>), Str(<<"r">>)},
      max_lines |-> MaxLines, max_len |-> MaxLines, max_hist |-> MaxHist + 2,
      max_keys |-> 2 * MaxKeys, max_writes |-> 0, tracking |-> FALSE ]

NextHistory ==
    \/ KeyNormal(HistoryProfile)
    \/ KeyInsert(HistoryProfile)
    \/ KeyCommand(HistoryProfile)

SpecHistory == InitTerm /\ [][NextHistory]_vars

\* the document, the cursor and both stacks of e are those of the state
SameHistory(e) ==
    /\ e.lines = lines
    /\ e.cursor_x = cursor_x /\ e.cursor_y = cursor_y
    /\ e.undo_stack = undo_stack
    /\ e.redo_stack = redo_stack

\* the commands u and r typed in NORMAL mode, one after the other
TypeTwoCommands(s, first, second) ==
    LET k1 == run_step(s, ord(":"), NoEnv)
        k2 == run_step(k1, first, NoEnv)
        k3 == run_step(k2, ENTER, NoEnv)
        k4 == run_step(k3, ord(":"), NoEnv)
        k5 == run_step(k4, second, NoEnv)
    IN  run_step(k5, ENTER, NoEnv)

\* C29: with a frame on the undo stack, undo and then redo give back the
\* lines, the cursor, the undo stack and the redo stack; with a frame on the
\* redo stack, so do redo and then undo
UndoRedoRoundTrip ==
    /\ undo_stack # <<>> =>
          /\ SameHistory(redo(undo(Cur)))
          /\ (mode = NORMAL =>
                 SameHistory(TypeTwoCommands(Cur, ord("u"), ord("r"))))
    /\ redo_stack # <<>> =>
          /\ SameHistory(undo(redo(Cur)))
          /\ (mode = NORMAL =>
                 SameHistory(TypeTwoCommands(Cur, ord("r"), ord("u"))))

\* C29 witness: both stacks hold frames, and the frame undo would put back
\* is not the document as it is
UndoRedoRoundTripSeen ==
    /\ mode = NORMAL
    /\ Len(undo_stack) >= 2
    /\ redo_stack # <<>>
    /\ undo_stack[Len(undo_stack)].lines # lines

(***************************************************************************)
(* SpecRouting: a Python file is edited, a shell is opened, left with      *)
(* Ctrl-W and kept, and the other modes are visited with the session       *)
(* alive.                                                                  *)
(***************************************************************************)
RoutingCompletions == { <<>>, <<Str(<<"p", "r", "i", "n", "t">>)>> }

RoutingPolls ==
    { [kind |-> "idle", data |-> <<>>], [kind |-> "data", data |-> <<88>>] }

RoutingProfile ==
    [ normal |-> {ord("i"), ord(":"), ord("x")},
      dashboard |-> {},
      insert |-> {ord("a"), TAB, ESC},
      command |-> {ord("t"), ord("e"), ord("r"), ord("m"), ord("c"), ord("o"),
                   ord("n"), ord("f"), ord("i"), ord("g"), ENTER},
      config |-> {ord("j"), ENTER, ESC},
      terminal |-> {NO_KEY, CTRL_W, ord("a")},
      polls |-> RoutingPolls,
      autocomplete |-> {ord("j"), ENTER, ESC},
      completions |-> RoutingCompletions,
      words |-> {Str(<<"t", "e", "r", "m">>),
                 Str(<<"c", "o", "n", "f", "i", "g">>)},
      max_lines |-> 1, max_len |-> MaxLineLen + 2, max_hist |-> MaxHist,
      max_keys |-> 2 * MaxKeys, max_writes |-> MaxWrites - 1,
      tracking |-> FALSE ]

InitRouting ==
    /\ InitEditor(<< Str(<<"p", "r">>) >>, TRUE, FALSE, ScreenH, ScreenW)
    /\ keys_read = 0
    /\ track = NoTrack
    /\ fed = <<>>
    /\ wrapped = <<>>

NextRouting ==
    \/ KeyNormal(RoutingProfile)
    \/ KeyInsert(RoutingProfile)
    \/ KeyCommand(RoutingProfile)
    \/ KeyConfig(RoutingProfile)
    \/ KeyAutocomplete(RoutingProfile)
    \/ TerminalTick(RoutingProfile)

SpecRouting == InitRouting /\ [][NextRouting]_vars

\* the codes getch returns for the ASCII keys and for the keys the handlers
\* name, and two codes no handler names
AllKeys ==
    (0..127) \cup {KEY_DOWN, KEY_UP, KEY_LEFT, KEY_RIGHT, KEY_HOME,
                   KEY_BACKSPACE, KEY_DC, KEY_IC, KEY_NPAGE, KEY_PPAGE, KEY_END}
             \cup {255, 511}

\* C30: in TERMINAL mode no key changes the lines, the cursor or the undo
\* and redo stacks; in every other mode no key has bytes written to the
\* shell, and the grid gets no bytes although the shell has output waiting:
\* it stays as it is unless the key is the Enter of the command term, which
\* makes a blank grid
RoutingExclusive ==
    /\ mode = TERMINAL =>
          \A key \in AllKeys, poll \in RoutingPolls :
              LET e == run_step(Cur, key, [NoEnv EXCEPT !.poll = poll])
              IN  /\ e.lines = lines
                  /\ e.cursor_x = cursor_x /\ e.cursor_y = cursor_y
                  /\ e.undo_stack = undo_stack
                  /\ e.redo_stack = redo_stack
    /\ mode # TERMINAL =>
          \A key \in AllKeys, c \in RoutingCompletions :
              LET poll == [kind |-> "data", data |-> <<88>>]
                  env == [NoEnv EXCEPT !.poll = poll, !.completions = c,
                                       !.proactive = c]
                  d == dispatch(Cur, key, env)
                  e == next_iteration(d, poll)
              IN  /\ e.pty.written = pty.written
                  /\ d.mode # TERMINAL => e.terminal = terminal
                  /\ d.mode = TERMINAL =>
                        d.terminal = TerminalEmulator(scr_h - 2, scr_w)

\* C30 witness: the suggestion list is open over an edited line while a
\* session that has had output and input is alive
RoutingExclusiveSeen ==
    /\ mode = AUTOCOMPLETE
    /\ term_fd # NoneId
    /\ fed # <<>>
    /\ pty.written # <<>>
    /\ terminal.screen[1][1][1] = 88

====
